---- MODULE Spec2Model ----
(***************************************************************************)
(* Notification scheduling and the booking tool of receptions-ai.          *)
(*                                                                         *)
(* Time is counted in whole minutes since 1970-01-01 00:00, the resolution *)
(* of the '%Y-%m-%d %H:%M' format that create_booking parses.  The wall    *)
(* clock (datetime.now()) is read at the instants of ClockReadings, which  *)
(* are placed on and next to every boundary of the comparisons the code    *)
(* makes with an appointment instant.                                      *)
(***************************************************************************)
EXTENDS Integers, Sequences, FiniteSets, TLC

VARIABLES
    now,          \* the wall clock, datetime.now()
    bookings,     \* table "bookings": sequence of rows, id = index
    hist,         \* per Booking: what the sweeps did to it (history)
    running,      \* BackgroundScheduler.running
    stopPc,       \* stop(): "idle", or "joining" while shutdown() waits for jobs
    lastCall,     \* the last start()/stop() call and what it did (history)
    reminderJob,  \* the job _send_booking_reminders
    reviewJob,    \* the job _send_review_requests
    cb,           \* the create_booking call in progress, and its result
    transfer_logs, \* table "transfer_logs": sequence of rows, id = index
    tc,           \* the transfer_call call in progress, and its result
    turn,         \* the turn in progress: process_message or one of its streams
    token_callback, \* StreamingTokenCallback of the turn: tokens, token_queue
    agent_task,   \* agent.invoke of the turn on the worker thread
    chunks,       \* what the stream of the turn has yielded so far
    conversations, \* table "conversations": sequence of user_id, id = index
    messages,     \* table "messages": sequence of rows, id = index
    clock,        \* func.now(), in the seconds CURRENT_TIMESTAMP counts
    requests,     \* the /chat and /voice requests in progress
    posts,        \* how many /chat requests the clients have made
    served,       \* per user_id, how many /chat requests have returned
    agent_loop,   \* the tool-calling loop of agent.invoke
    cal,          \* the check_calendar call in progress, and its result
    sms           \* the send_sms call in progress, and its result

vars == <<now, bookings, hist, running, stopPc, lastCall, reminderJob, reviewJob, cb,
          transfer_logs, tc, turn, token_callback, agent_task, chunks,
          conversations, messages, clock, requests, posts, served,
          agent_loop, cal, sms>>

chatVars == <<conversations, messages, clock, requests, posts, served>>

toolVars == <<agent_loop, cal, sms>>

turnVars == <<turn, token_callback, agent_task, chunks>>

transferVars == <<transfer_logs, tc>>

(***************************************************************************)
(* Bounds of the model.                                                    *)
(***************************************************************************)
MaxBookings == 2     \* rows the table may hold
MaxTransfers == 3    \* rows the table transfer_logs may hold
MaxTextLen == 11     \* the length of the generated final texts
MaxSent == 2         \* the /chat requests the clients make
MaxClock == 1        \* the seconds the database clock counts
RecursionLimit == 6  \* recursion_limit of the graph of the agent
MaxEvents == 2       \* the events of an answer of the calendar
SendCap == 2         \* the send counters of hist saturate here

(***************************************************************************)
(* Program constants.                                                      *)
(***************************************************************************)
ReminderLeadHours == 24       \* timedelta(hours=24)
ReminderWindowMinutes == 10   \* timedelta(minutes=10)
ReviewSpanDays == 2           \* timedelta(days=2)
ReminderIntervalMinutes == 5  \* IntervalTrigger(minutes=5)
WorkStartHour == 9            \* .replace(hour=9)
WorkEndHour == 17             \* .replace(hour=17, minute=0)
DurationMinutes == 30         \* duration_minutes: int = 30

Min(a, b) == IF a < b THEN a ELSE b

SeqRange(s) == {s[i] : i \in 1..Len(s)}

(***************************************************************************)
(* datetime.strptime(datetime_str, '%Y-%m-%d %H:%M').  An input text is    *)
(* the tuple of the five numbers it spells, <<Y, m, d, H, M>>; a text that *)
(* does not match the format, or spells a date that does not exist, makes  *)
(* strptime raise ValueError.                                              *)
(***************************************************************************)
IsLeap(y) == (y % 4 = 0 /\ y % 100 # 0) \/ y % 400 = 0

DaysInMonth(y, m) ==
    IF m = 2 THEN (IF IsLeap(y) THEN 29 ELSE 28)
    ELSE IF m \in {4, 6, 9, 11} THEN 30 ELSE 31

\* days from 1970-01-01 to the civil date y-m-d (proleptic Gregorian)
DaysFromCivil(y, m, d) ==
    LET yy  == IF m <= 2 THEN y - 1 ELSE y
        era == yy \div 400
        yoe == yy - era * 400
        mp  == (m + 9) % 12
        doy == (153 * mp + 2) \div 5 + d - 1
        doe == yoe * 365 + yoe \div 4 - yoe \div 100 + doy
    IN  era * 146097 + doe - 719468

WellFormed(s) ==
    /\ s[1] \in 1..9999
    /\ s[2] \in 1..12
    /\ s[3] \in 1..DaysInMonth(s[1], s[2])
    /\ s[4] \in 0..23
    /\ s[5] \in 0..59

Instant(s) == (DaysFromCivil(s[1], s[2], s[3]) * 24 + s[4]) * 60 + s[5]

strptime(s) ==
    IF WellFormed(s) THEN [ok |-> TRUE, at |-> Instant(s)]
    ELSE [ok |-> FALSE, at |-> 0]

\* the texts create_booking is called with
DateTimeInputs ==
    { <<2030, 1, 3, 0, 0>>,      \* '2030-01-03 00:00'
      <<2024, 10, 28, 14, 0>>,   \* '2024-10-28 14:00', the date of the tests
      <<2030, 2, 30, 0, 0>>,     \* '2030-02-30 00:00': no such day
      <<0, 0, 0, 0, 0>> }        \* 'invalid-datetime'

\* the inputs that can be booked: well formed, and not past at StartOfTime
Appointments == { <<2030, 1, 3, 0, 0>> }

\* the instants at which the clock is read: around each appointment d, both
\* sides of every bound of the reminder window (d - lead - w .. d - lead + w),
\* of the past-date test (d) and of the review window (d + 1 .. d + span)
ReadingsAround(d) ==
    LET lead == ReminderLeadHours * 60
        w    == ReminderWindowMinutes
        span == ReviewSpanDays * 1440
    IN  { d - lead - w - 1, d - lead - w, d - lead + w, d - lead + w + 1,
          d, d + 1, d + span, d + span + 1 }

ClockReadings ==
    UNION { ReadingsAround(Instant(a)) : a \in Appointments }

\* the first reading
StartOfTime == CHOOSE t \in ClockReadings : \A u \in ClockReadings : t <= u


(***************************************************************************)
(* Storage.  A Booking row as create_booking inserts it: the two flags     *)
(* default to False and google_event_id to NULL.                           *)
(***************************************************************************)
NewBooking(at) ==
    [user_id |-> "user1", user_name |-> "Budi", user_phone |-> "+628123456789",
     datetime |-> at, notes |-> "NULL",
     reminder_sent |-> FALSE, review_sent |-> FALSE, google_event_id |-> "NULL"]

\* history of a Booking: the sends of each kind that reported success and
\* whose flag commit succeeded, counted up to SendCap; `delivered`, the
\* sends of each kind that reported success; `event`, the commit of
\* google_event_id succeeded
NewHist ==
    [reminder |-> 0, review |-> 0, delivered |-> [reminder |-> 0, review |-> 0],
     event |-> FALSE]

\* the rows a query returns, as ids in table order
Select(rows, P(_)) ==
    SelectSeq([i \in 1..Len(rows) |-> i], LAMBDA i : P(rows[i]))

\* a commit raises, or it succeeds.  A commit that raised has rolled the
\* transaction back and expired every object of the Session, so the next
\* attribute read (booking.id) is a SELECT: it succeeds, or it raises too
\* when the database is still failing.
CommitOutcomes == {"ok", "fail_reload_ok", "fail_reload_raises"}

SessionAfter(commit) ==
    IF commit = "fail_reload_raises" THEN "unloadable" ELSE "active"

\* what a send_*_sms call does: its result's status, or an exception
SendOutcomes == {"success", "error", "raise"}

(***************************************************************************)
(* SchedulerService.start / stop over BackgroundScheduler.                 *)
(***************************************************************************)
\* BackgroundScheduler.start(): SchedulerAlreadyRunningError when running
BackgroundScheduler_start(r) ==
    IF r THEN [running |-> r, raised |-> TRUE]
    ELSE [running |-> TRUE, raised |-> FALSE]

\* BackgroundScheduler.shutdown(): SchedulerNotRunningError when stopped
BackgroundScheduler_shutdown(r) ==
    IF r THEN [running |-> FALSE, raised |-> FALSE]
    ELSE [running |-> r, raised |-> TRUE]

\* (mutant) start() without `if not self.scheduler.running`
SchedulerServiceStartUnguarded(r) == BackgroundScheduler_start(r)

SchedulerService_start(r) ==
    IF ~r THEN BackgroundScheduler_start(r)
    ELSE [running |-> r, raised |-> FALSE]

SchedulerService_stop(r) ==
    IF r THEN BackgroundScheduler_shutdown(r)
    ELSE [running |-> r, raised |-> FALSE]

JobsIdle == reminderJob.pc = "idle" /\ reviewJob.pc = "idle"

start_scheduler ==
    /\ stopPc = "idle"
    /\ LET res == SchedulerService_start(running)
       IN  /\ running' = res.running
           /\ lastCall' = [op |-> "start", before |-> running,
                           after |-> res.running, raised |-> res.raised]
    /\ UNCHANGED <<now, bookings, hist, stopPc, reminderJob, reviewJob, cb, transferVars, turnVars,
                   chatVars, toolVars>>

\* stop(): shutdown() marks the scheduler stopped, then waits for the jobs
\* that are executing
stop_scheduler ==
    /\ stopPc = "idle"
    /\ LET res == SchedulerService_stop(running)
       IN  /\ running' = res.running
           /\ lastCall' = [op |-> "stop", before |-> running,
                           after |-> res.running, raised |-> res.raised]
           /\ stopPc' = IF running /\ ~res.raised THEN "joining" ELSE "idle"
    /\ UNCHANGED <<now, bookings, hist, reminderJob, reviewJob, cb, transferVars, turnVars,
                   chatVars, toolVars>>

stop_scheduler_return ==
    /\ stopPc = "joining"
    /\ JobsIdle
    /\ stopPc' = "idle"
    /\ UNCHANGED <<now, bookings, hist, running, lastCall, reminderJob, reviewJob, cb,
                   transferVars, turnVars,
                   chatVars, toolVars>>

(***************************************************************************)
(* The two jobs.  A job is idle, inside its loop over the rows its query    *)
(* returned, or done (the function is returning to the executor); sel,     *)
(* idx, now and sess are the function's locals (bookings, the loop         *)
(* position, now, db), the other fields are history.  The scheduler runs   *)
(* at most one instance of a job at a time.                                *)
(***************************************************************************)
IdleJob ==
    [pc |-> "idle", now |-> 0, sel |-> <<>>, idx |-> 1, sess |-> "closed",
     flagsAtSel |-> <<>>, attempted |-> {}, outcome |-> "none",
     last |-> [id |-> 0, send |-> "none", commit |-> "none"]]

\* (mutant) a window of one minute on each side, narrower than the interval
\* of the job
ReminderFilterMinuteWide(row, t) ==
    /\ row.datetime >= t + ReminderLeadHours * 60 - 1
    /\ row.datetime <= t + ReminderLeadHours * 60 + 1
    /\ row.reminder_sent = FALSE

\* (mutant) the query without `Booking.reminder_sent == False`
ReminderFilterNoFlag(row, t) ==
    /\ row.datetime >= t + ReminderLeadHours * 60 - ReminderWindowMinutes
    /\ row.datetime <= t + ReminderLeadHours * 60 + ReminderWindowMinutes

\* Booking.datetime >= reminder_window_start, Booking.datetime <=
\* reminder_window_end, Booking.reminder_sent == False
ReminderFilter(row, t) ==
    /\ row.datetime >= t + ReminderLeadHours * 60 - ReminderWindowMinutes
    /\ row.datetime <= t + ReminderLeadHours * 60 + ReminderWindowMinutes
    /\ row.reminder_sent = FALSE

\* (mutant) `Booking.datetime <= now` for `Booking.datetime < now`
ReviewFilterInclusive(row, t) ==
    /\ row.datetime <= t
    /\ row.datetime >= t - ReviewSpanDays * 1440
    /\ row.review_sent = FALSE

\* (mutant) the query without `Booking.datetime < now`
ReviewFilterNoUpperEnd(row, t) ==
    /\ row.datetime >= t - ReviewSpanDays * 1440
    /\ row.review_sent = FALSE

\* Booking.datetime < now, Booking.datetime >= two_days_ago,
\* Booking.review_sent == False
ReviewFilter(row, t) ==
    /\ row.datetime < t
    /\ row.datetime >= t - ReviewSpanDays * 1440
    /\ row.review_sent = FALSE

\* what the outer `except Exception` of a job function does with an
\* exception that left the loop or the query: it prints, the function returns
OuterHandler == "aborted"

\* SessionLocal(), now = datetime.now(), the query
JobBegin(flag, sel) ==
    [IdleJob EXCEPT !.pc = "loop", !.now = now, !.sel = sel,
                    !.sess = "active",
                    !.flagsAtSel = [i \in 1..Len(bookings) |-> bookings[i][flag]]]

\* the query (or SessionLocal()) raises: finally db.close(), outer except
JobQueryFails ==
    [IdleJob EXCEPT !.pc = "done", !.now = now, !.outcome = OuterHandler]

\* leaving the loop by an exception: finally db.close(), outer except
JobAbort(job, b, send, commit) ==
    [job EXCEPT !.pc = "done", !.sess = "closed", !.outcome = OuterHandler,
                !.last = [id |-> b, send |-> send, commit |-> commit]]

\* (mutant) the UPDATE writes every column of the row, with the values a
\* Booking has when it is inserted
FlagCommittedStaleRow(rows, b, flag) ==
    [rows EXCEPT ![b] = [NewBooking(@.datetime) EXCEPT ![flag] = TRUE]]

\* (mutant) the job marks the Booking as done with both notifications
FlagCommittedBoth(rows, b, flag) ==
    [rows EXCEPT ![b].reminder_sent = TRUE, ![b].review_sent = TRUE]

\* booking.reminder_sent = True (booking.review_sent = True); db.commit():
\* the UPDATE writes the one column the job changed
FlagCommitted(rows, b, flag) == [rows EXCEPT ![b][flag] = TRUE]

\* (mutant) the flag is set and committed whatever the send reported
FlagUpdateAlways(send) == TRUE

\* the statements under `if result.get("status") == "success"` run?
FlagUpdateRuns(send) == send = "success"

\* One pass of the loop body for the row job.sel[job.idx], with the send
\* doing `send` and the commit (when it runs) doing `commit`.
\* The send is called; on status success the flag is set and committed
\* (the UPDATE writes the one column the job changed).  An exception of the
\* send or of the commit reaches the handler, which reads booking.id: after
\* a commit that raised this read reloads the row, and when the reload
\* raises too the exception is outside any inner try and leaves the loop.
ProcessRecord(job, flag, send, commit) ==
    LET b == job.sel[job.idx]
        h == hist[b]
        kind == IF flag = "reminder_sent" THEN "reminder" ELSE "review"
        sent == [job EXCEPT !.attempted = @ \cup {b}]
        step(j, c) == [j EXCEPT !.idx = @ + 1,
                                !.last = [id |-> b, send |-> send, commit |-> c]]
        delivered == IF send = "success"
                     THEN [hist EXCEPT ![b].delivered[kind] = Min(@ + 1, SendCap)]
                     ELSE hist
    IN  IF ~FlagUpdateRuns(send)
        THEN [job |-> step(sent, "none"), rows |-> bookings, hist |-> delivered]
        ELSE IF commit = "ok"
        THEN [job |-> step(sent, commit),
              rows |-> FlagCommitted(bookings, b, flag),
              hist |-> [delivered EXCEPT ![b][kind] = Min(@ + 1, SendCap)]]
        ELSE [job |-> IF SessionAfter(commit) = "unloadable"
                      THEN JobAbort(sent, b, send, commit)
                      ELSE step(sent, commit),
              rows |-> bookings, hist |-> delivered]

\* the loop is over: finally db.close()
JobEnd(job) ==
    [job EXCEPT !.pc = "done", !.sess = "closed", !.outcome = "completed"]

send_booking_reminders_begin ==
    /\ running
    /\ reminderJob.pc = "idle"
    /\ \/ reminderJob' = JobBegin("reminder_sent",
                            Select(bookings, LAMBDA r : ReminderFilter(r, now)))
       \/ reminderJob' = JobQueryFails
    /\ UNCHANGED <<now, bookings, hist, running, stopPc, lastCall, reviewJob, cb,
                   transferVars, turnVars,
                   chatVars, toolVars>>

send_booking_reminders_record ==
    /\ reminderJob.pc = "loop"
    /\ reminderJob.idx <= Len(reminderJob.sel)
    /\ \E send \in SendOutcomes, commit \in CommitOutcomes :
          LET r == ProcessRecord(reminderJob, "reminder_sent", send, commit)
          IN  /\ reminderJob' = r.job
              /\ bookings' = r.rows
              /\ hist' = r.hist
    /\ UNCHANGED <<now, running, stopPc, lastCall, reviewJob, cb, transferVars, turnVars,
                   chatVars, toolVars>>

send_booking_reminders_end ==
    /\ reminderJob.pc = "loop"
    /\ reminderJob.idx > Len(reminderJob.sel)
    /\ reminderJob' = JobEnd(reminderJob)
    /\ UNCHANGED <<now, bookings, hist, running, stopPc, lastCall, reviewJob, cb,
                   transferVars, turnVars,
                   chatVars, toolVars>>

\* the job function has returned: the executor releases the instance
send_booking_reminders_return ==
    /\ reminderJob.pc = "done"
    /\ reminderJob' = IdleJob
    /\ UNCHANGED <<now, bookings, hist, running, stopPc, lastCall, reviewJob, cb,
                   transferVars, turnVars,
                   chatVars, toolVars>>

send_review_requests_begin ==
    /\ running
    /\ reviewJob.pc = "idle"
    /\ \/ reviewJob' = JobBegin("review_sent",
                          Select(bookings, LAMBDA r : ReviewFilter(r, now)))
       \/ reviewJob' = JobQueryFails
    /\ UNCHANGED <<now, bookings, hist, running, stopPc, lastCall, reminderJob, cb,
                   transferVars, turnVars,
                   chatVars, toolVars>>

send_review_requests_record ==
    /\ reviewJob.pc = "loop"
    /\ reviewJob.idx <= Len(reviewJob.sel)
    /\ \E send \in SendOutcomes, commit \in CommitOutcomes :
          LET r == ProcessRecord(reviewJob, "review_sent", send, commit)
          IN  /\ reviewJob' = r.job
              /\ bookings' = r.rows
              /\ hist' = r.hist
    /\ UNCHANGED <<now, running, stopPc, lastCall, reminderJob, cb, transferVars, turnVars,
                   chatVars, toolVars>>

send_review_requests_end ==
    /\ reviewJob.pc = "loop"
    /\ reviewJob.idx > Len(reviewJob.sel)
    /\ reviewJob' = JobEnd(reviewJob)
    /\ UNCHANGED <<now, bookings, hist, running, stopPc, lastCall, reminderJob, cb,
                   transferVars, turnVars,
                   chatVars, toolVars>>

send_review_requests_return ==
    /\ reviewJob.pc = "done"
    /\ reviewJob' = IdleJob
    /\ UNCHANGED <<now, bookings, hist, running, stopPc, lastCall, reminderJob, cb,
                   transferVars, turnVars,
                   chatVars, toolVars>>

(***************************************************************************)
(* create_booking.  One call at a time; pc is the place in the function,   *)
(* at is booking_datetime, rowId is booking.id once the row is committed   *)
(* (0 before), sess is the state of db.  History: clock says how the       *)
(* parsed instant stood to the clock the call read, rowsBefore is the size *)
(* of the table at the call, calendar and sms say what the two steps met.  *)
(***************************************************************************)
PastMessage == "Cannot book in the past. Please choose a future date."

FormatMessage == "Invalid date/time format. Please use 'YYYY-MM-DD HH:MM'"

ErrorResult(msg) == [status |-> "error", message |-> msg, booking_id |-> 0]

SuccessResult(id) ==
    [status |-> "success", message |-> "Booking confirmed", booking_id |-> id]

NoResult == [status |-> "none", message |-> "", booking_id |-> 0]

NoCalendar == [event |-> "none", commit |-> "none"]

IdleCall ==
    [pc |-> "idle", wellFormed |-> FALSE, at |-> 0, clock |-> "none",
     rowId |-> 0, rowsBefore |-> 0, sess |-> "active",
     calendar |-> NoCalendar, sms |-> "none", result |-> NoResult]

Against(at, t) ==
    IF at < t THEN "earlier" ELSE IF at = t THEN "equal" ELSE "later"

\* (mutant) the test the wrong way round
IsPastReversed(at, t) == at > t

\* `if booking_datetime < datetime.now()`
IsPast(at, t) == at < t

\* (mutant) db.add(booking) without the commit: nothing reaches the table
InsertNotCommitted(rows, at) == rows

\* (mutant) the insert leaves out an appointment that a row already holds
InsertUnlessBooked(rows, at) ==
    IF \E i \in 1..Len(rows) : rows[i].datetime = at
    THEN rows
    ELSE Append(rows, NewBooking(at))

\* db.add(booking); db.commit(): the table after a commit that succeeded
InsertCommitted(rows, at) == Append(rows, NewBooking(at))

\* (mutant) the commit writes the whole row back as the call loaded it
CalendarCommittedWholeRow(rows, id) ==
    [rows EXCEPT ![id] = [NewBooking(@.datetime) EXCEPT !.google_event_id = "event"]]

\* booking.google_event_id = ...; db.commit(): the UPDATE writes the one
\* column the call changed
CalendarCommitted(rows, id) ==
    [rows EXCEPT ![id].google_event_id = "event"]

\* GoogleCalendarService() raises (no credentials), or create_event returns
\* status error or raises, or returns status success and the commit of
\* google_event_id does one of CommitOutcomes
CalendarOutcomes ==
    {[event |-> e, commit |-> "none"] : e \in {"init_raises", "error", "raises"}}
    \cup {[event |-> "success", commit |-> c] : c \in CommitOutcomes}

\* (mutant) no `except ValueError` clause: the general handler answers
ValueErrorAsGeneric == ErrorResult("Error creating booking")

\* `except ValueError`: what a date/time text that strptime refuses gives
ValueErrorResult == ErrorResult(FormatMessage)

\* the value create_booking returns once the two best-effort steps are over:
\* what they met is not looked at; only the read of booking.id can raise
ReturnValue(c) ==
    IF c.sess = "unloadable"
    THEN ErrorResult("Error creating booking")
    ELSE SuccessResult(c.rowId)

\* strptime and the past-date test
create_booking_call ==
    /\ cb.pc = "idle"
    /\ Len(bookings) < MaxBookings
    /\ \E s \in DateTimeInputs :
          LET p == strptime(s)
              c == [IdleCall EXCEPT !.wellFormed = p.ok, !.at = p.at,
                                    !.rowsBefore = Len(bookings)]
          IN  cb' = IF ~p.ok
                    THEN [c EXCEPT !.pc = "returned",
                                   !.result = ValueErrorResult]
                    ELSE IF IsPast(p.at, now)
                    THEN [c EXCEPT !.pc = "returned",
                                   !.clock = Against(p.at, now),
                                   !.result = ErrorResult(PastMessage)]
                    ELSE [c EXCEPT !.pc = "insert",
                                   !.clock = Against(p.at, now)]
    /\ UNCHANGED <<now, bookings, hist, running, stopPc, lastCall, reminderJob, reviewJob,
                   transferVars, turnVars,
                   chatVars, toolVars>>

\* db.add, db.commit, db.refresh: the commit raises, or it succeeds and the
\* refresh raises, or both succeed
create_booking_insert ==
    /\ cb.pc = "insert"
    /\ \/ /\ bookings' = InsertCommitted(bookings, cb.at)
          /\ hist' = Append(hist, NewHist)
          /\ \/ cb' = [cb EXCEPT !.pc = "calendar", !.rowId = Len(bookings')]
             \/ cb' = [cb EXCEPT !.pc = "returned", !.rowId = Len(bookings'),
                                 !.result = ErrorResult("Error creating booking")]
       \/ /\ cb' = [cb EXCEPT !.pc = "returned",
                              !.result = ErrorResult("Error creating booking")]
          /\ UNCHANGED <<bookings, hist>>
    /\ UNCHANGED <<now, running, stopPc, lastCall, reminderJob, reviewJob, transferVars, turnVars,
                   chatVars, toolVars>>

\* the calendar step, inside its own try/except
create_booking_calendar ==
    /\ cb.pc = "calendar"
    /\ \E o \in CalendarOutcomes :
          /\ cb' = [cb EXCEPT !.pc = "sms", !.calendar = o,
                              !.sess = IF o.event = "success"
                                       THEN SessionAfter(o.commit) ELSE @]
          /\ bookings' = IF o.event = "success" /\ o.commit = "ok"
                         THEN CalendarCommitted(bookings, cb.rowId)
                         ELSE bookings
          /\ hist' = IF o.event = "success" /\ o.commit = "ok"
                     THEN [hist EXCEPT ![cb.rowId].event = TRUE]
                     ELSE hist
    /\ UNCHANGED <<now, running, stopPc, lastCall, reminderJob, reviewJob, transferVars,
                   turnVars,
                   chatVars, toolVars>>

\* the confirmation SMS, inside its own try/except; its result is dropped
create_booking_sms ==
    /\ cb.pc = "sms"
    /\ \E o \in SendOutcomes : cb' = [cb EXCEPT !.pc = "return", !.sms = "called"]
    /\ UNCHANGED <<now, bookings, hist, running, stopPc, lastCall, reminderJob, reviewJob,
                   transferVars, turnVars,
                   chatVars, toolVars>>

\* the result dict reads booking.id: after a calendar commit that raised
\* the read reloads the row, and when the reload raises the outer
\* `except Exception` returns the error result
create_booking_return ==
    /\ cb.pc = "return"
    /\ cb' = [cb EXCEPT !.pc = "returned", !.result = ReturnValue(cb)]
    /\ UNCHANGED <<now, bookings, hist, running, stopPc, lastCall, reminderJob, reviewJob,
                   transferVars, turnVars,
                   chatVars, toolVars>>

\* the caller has taken the result
create_booking_done ==
    /\ cb.pc = "returned"
    /\ cb' = IdleCall
    /\ UNCHANGED <<now, bookings, hist, running, stopPc, lastCall, reminderJob, reviewJob,
                   transferVars, turnVars,
                   chatVars, toolVars>>

(***************************************************************************)
(* transfer_call.  One call at a time; pc is the place in the function,    *)
(* logId is transfer_log.id once the row is committed (0 before).          *)
(* History: logsBefore is the size of the table at the call, user_id is    *)
(* what the lookup gave, notify what the notification met.                 *)
(***************************************************************************)
\* table "conversations": id -> user_id
Conversations == [c \in {1} |-> "user1"]

\* the conversation_id the tool is called with: a Conversation, or none
ConversationArgs == {1, 2}

\* the reason the tool is called with
Reasons == {"billing complaint", "wants the owner"}

NewTransferLog(conversation_id, reason) ==
    [conversation_id |-> conversation_id, reason |-> reason]

TransferError == [status |-> "error", transfer_id |-> 0]

TransferSuccess(id) == [status |-> "success", transfer_id |-> id]

TransferInit ==
    /\ transfer_logs = <<>>
    /\ tc = [pc |-> "idle", conversation_id |-> 0, logId |-> 0, logsBefore |-> 0,
             user_id |-> "none", notify |-> "none",
             result |-> [status |-> "none", transfer_id |-> 0]]

\* `conversation.user_id if conversation else "unknown"`
Lookup(conversation_id) ==
    IF conversation_id \in DOMAIN Conversations
    THEN Conversations[conversation_id] ELSE "unknown"

\* TransferLog(...), db.add, db.commit, db.refresh: the commit raises, or it
\* succeeds and the refresh raises, or both succeed
transfer_call_insert ==
    /\ tc.pc = "idle"
    /\ Len(transfer_logs) < MaxTransfers
    /\ \E c \in ConversationArgs, r \in Reasons :
          LET call == [tc EXCEPT !.conversation_id = c,
                                 !.logsBefore = Len(transfer_logs)]
              id == Len(transfer_logs) + 1
          IN  \/ /\ transfer_logs' = Append(transfer_logs, NewTransferLog(c, r))
                 /\ \/ tc' = [call EXCEPT !.pc = "lookup", !.logId = id]
                    \/ tc' = [call EXCEPT !.pc = "returned", !.logId = id,
                                          !.result = TransferError]
              \/ /\ tc' = [call EXCEPT !.pc = "returned", !.result = TransferError]
                 /\ UNCHANGED transfer_logs
    /\ UNCHANGED <<now, bookings, hist, running, stopPc, lastCall, reminderJob, reviewJob, cb,
                   turnVars,
                   chatVars, toolVars>>

\* the query for the Conversation: it raises, or it gives the row or None
transfer_call_lookup ==
    /\ tc.pc = "lookup"
    /\ \/ tc' = [tc EXCEPT !.pc = "returned", !.result = TransferError]
       \/ tc' = [tc EXCEPT !.pc = "notify", !.user_id = Lookup(tc.conversation_id)]
    /\ UNCHANGED <<now, bookings, hist, running, stopPc, lastCall, reminderJob, reviewJob, cb,
                   transfer_logs, turnVars,
                   chatVars, toolVars>>

\* send_transfer_notification inside its own try/except, then the result
transfer_call_notify ==
    /\ tc.pc = "notify"
    /\ \E o \in SendOutcomes :
          tc' = [tc EXCEPT !.pc = "returned", !.notify = o,
                           !.result = TransferSuccess(tc.logId)]
    /\ UNCHANGED <<now, bookings, hist, running, stopPc, lastCall, reminderJob, reviewJob, cb,
                   transfer_logs, turnVars,
                   chatVars, toolVars>>

\* the caller has taken the result
transfer_call_done ==
    /\ tc.pc = "returned"
    /\ tc' = [tc EXCEPT !.pc = "idle", !.conversation_id = 0, !.logId = 0,
                        !.logsBefore = 0, !.user_id = "none", !.notify = "none",
                        !.result = [status |-> "none", transfer_id |-> 0]]
    /\ UNCHANGED <<now, bookings, hist, running, stopPc, lastCall, reminderJob, reviewJob, cb,
                   transfer_logs, turnVars,
                   chatVars, toolVars>>

(***************************************************************************)
(* Text.  A text is a string; Char(s, i) is its i-th character.            *)
(***************************************************************************)
Char(s, i) == SubSeq(s, i, i)

\* str.lower(), on the letters the texts of the model are written with
LowerOf ==
    [c \in {"A", "B", "C", "D", "E", "F", "I", "K", "L", "M", "N", "O", "P", "R", "S", "T",
            "V", "W", "Y"} |->
        CASE c = "A" -> "a" [] c = "B" -> "b" [] c = "C" -> "c" [] c = "E" -> "e"
          [] c = "F" -> "f" [] c = "I" -> "i" [] c = "K" -> "k" [] c = "L" -> "l"
          [] c = "N" -> "n" [] c = "O" -> "o" [] c = "P" -> "p" [] c = "R" -> "r"
          [] c = "S" -> "s" [] c = "T" -> "t" [] c = "V" -> "v" [] c = "D" -> "d"
          [] c = "M" -> "m" [] c = "W" -> "w" [] c = "Y" -> "y"]

lower(s) ==
    LET low[n \in 0..Len(s)] ==
            IF n = 0 THEN ""
            ELSE LET c == Char(s, n)
                 IN  low[n - 1] \o (IF c \in DOMAIN LowerOf THEN LowerOf[c] ELSE c)
    IN  low[Len(s)]

\* the final texts over a letter and a space, up to MaxTextLen characters
RECURSIVE TextsOfLen(_)
TextsOfLen(n) ==
    IF n = 0 THEN {""}
    ELSE {text \o c : text \in TextsOfLen(n - 1), c \in {"a", " "}}

AllTexts == UNION {TextsOfLen(n) : n \in 0..MaxTextLen}

\* `len(buffer) >= 10`
ChunkLength == 10

\* `sub in s`
In(sub, s) ==
    \E i \in 1..(Len(s) - Len(sub) + 1) : SubSeq(s, i, i + Len(sub) - 1) = sub

\* "".join(list)
RECURSIVE join(_)
join(list) ==
    IF list = <<>> THEN "" ELSE Head(list) \o join(Tail(list))

(***************************************************************************)
(* The action of a turn, from the final text.                              *)
(***************************************************************************)
\* (mutant) the transfer rule tried before the booking rule
ClassifyTransferFirst(response) ==
    IF In("transfer", lower(response)) THEN "transfer"
    ELSE IF In("booking", lower(response)) \/ In("appointed", lower(response))
    THEN "booking"
    ELSE IF In("calendar", lower(response)) \/ In("available", lower(response))
    THEN "calendar"
    ELSE "response"

\* action = "response"; if ... elif ... elif ...
Classify(response) ==
    IF In("booking", lower(response)) \/ In("appointed", lower(response))
    THEN "booking"
    ELSE IF In("transfer", lower(response)) THEN "transfer"
    ELSE IF In("calendar", lower(response)) \/ In("available", lower(response))
    THEN "calendar"
    ELSE "response"

\* f"I encountered an error: {str(e)}. Please try again."
Apology(e) == "I encountered an error: " \o e \o ". Please try again."

(***************************************************************************)
(* The gateway.  What create_receptionist_agent, the history query and     *)
(* agent.invoke do in one turn is a behaviour:                             *)
(*   raisesAt  where an exception is raised, if anywhere, and error, its   *)
(*             text;                                                       *)
(*   tokens    the tokens on_llm_new_token is called with, in order, over  *)
(*             all the rounds of the tool-calling loop;                    *)
(*   tool      the tool the loop ran, if any;                              *)
(*   final     the content of the last message of the result.              *)
(***************************************************************************)
Final(text, tokens, tool) ==
    [raisesAt |-> "none", error |-> "", tokens |-> tokens, tool |-> tool,
     final |-> text]

Raising(at, e, tokens) ==
    [raisesAt |-> at, error |-> e, tokens |-> tokens, tool |-> "none", final |-> ""]

GatewayBehaviours ==
    { Final("Your booking is confirmed.", <<"Your boo", "king is confirmed.">>,
            "booking_tool"),
      Final("You are all set.", <<"Let me check the calendar. ", "You are ", "all set.">>,
            "calendar_tool"),
      Final("I will TRANSFER your Booking to the owner.", <<>>, "transfer_tool"),
      Final("Call Transferred.", <<"Call ", "Transferred.">>, "booking_tool"),
      Final("Slots are AVAILABLE at 10:00", <<"", "Slots are AVAILABLE", " at 10:00">>,
            "none"),
      Final("We are never disappointed!", <<>>, "none"),
      Final("Hi there, I can help with that.", <<"Hi there, I can help with that.">>,
            "transfer_tool"),
      Final("", <<>>, "none"),
      Raising("create_agent", "no such table: faqs", <<>>),
      Raising("history", "connection lost", <<>>),
      Raising("invoke", "booking service timed out", <<"Let me ">>) }

FinalTexts == {b.final : b \in GatewayBehaviours}

\* table "conversations": the ids a turn is called with
ConversationIds == {1, 2}

(***************************************************************************)
(* process_message.                                                        *)
(***************************************************************************)
NotFound == "Error: Conversation not found"

\* (mutant) the handler classifies the apology like any final text
process_message_classifies_errors(conversation_id, b) ==
    IF b.raisesAt = "create_agent"
    THEN [response |-> Apology(b.error), action |-> Classify(Apology(b.error))]
    ELSE IF conversation_id \notin DOMAIN Conversations
    THEN [response |-> NotFound, action |-> "error"]
    ELSE IF b.raisesAt # "none"
    THEN [response |-> Apology(b.error), action |-> Classify(Apology(b.error))]
    ELSE [response |-> b.final, action |-> Classify(b.final)]

\* what process_message returns: the agent is built, the conversation and
\* its history are loaded, the agent is invoked, the last message classified
process_message_result(conversation_id, b) ==
    IF b.raisesAt = "create_agent"
    THEN [response |-> Apology(b.error), action |-> "error"]
    ELSE IF conversation_id \notin DOMAIN Conversations
    THEN [response |-> NotFound, action |-> "error"]
    ELSE IF b.raisesAt # "none"
    THEN [response |-> Apology(b.error), action |-> "error"]
    ELSE [response |-> b.final, action |-> Classify(b.final)]

\* (mutant) agent.invoke before the conversation is looked up
InvokesBeforeLookup(conversation_id, b) == b.raisesAt \in {"invoke", "none"}

\* the turn reaches agent.invoke: the agent was built, the conversation
\* found and its history loaded
Invokes(conversation_id, b) ==
    b.raisesAt \in {"invoke", "none"} /\ conversation_id \in DOMAIN Conversations

NoBehaviour == Final("", <<>>, "none")

IdleTurn ==
    [variant |-> "none", pc |-> "idle", conversation_id |-> 0, b |-> NoBehaviour,
     full_response |-> "", action |-> "", i |-> 0, new_tokens |-> "",
     fallback |-> FALSE, invoked |-> FALSE,
     result |-> [response |-> "", action |-> ""]]

IdleTask == [state |-> "none", emitted |-> 0]

NewCallback == [tokens |-> <<>>, token_queue |-> <<>>]

TurnInit ==
    /\ turn = IdleTurn
    /\ token_callback = NewCallback
    /\ agent_task = IdleTask
    /\ chunks = <<>>

process_message ==
    /\ turn.pc = "idle"
    /\ \E c \in ConversationIds, b \in GatewayBehaviours :
          turn' = [IdleTurn EXCEPT !.variant = "invoke", !.pc = "closed",
                                   !.conversation_id = c, !.b = b,
                                   !.invoked = Invokes(c, b),
                                   !.result = process_message_result(c, b)]
    /\ UNCHANGED <<now, bookings, hist, running, stopPc, lastCall, reminderJob, reviewJob, cb,
                   transferVars, token_callback, agent_task, chunks,
                   chatVars, toolVars>>

\* the caller has taken the result, or has read the stream to its end
turn_done ==
    /\ turn.pc = "closed"
    /\ turn' = IdleTurn
    /\ token_callback' = NewCallback
    /\ agent_task' = IdleTask
    /\ chunks' = <<>>
    /\ UNCHANGED <<now, bookings, hist, running, stopPc, lastCall, reminderJob, reviewJob, cb,
                   transferVars,
                   chatVars, toolVars>>

(***************************************************************************)
(* The streams.  A chunk is what a `yield` gives: type, data, and for the  *)
(* type done the action beside the full response (data).  One step of a    *)
(* stream runs the generator up to its next yield.                         *)
(***************************************************************************)
Content(data) == [type |-> "content", data |-> data, action |-> ""]

Done(action, full_response) ==
    [type |-> "done", data |-> full_response, action |-> action]

\* (mutant) the except branch yields its text as one more content chunk
ErrorAsContent(data) == Content(data)

Error(data) == [type |-> "error", data |-> data, action |-> ""]

StreamNotFound == "Conversation not found"

\* `if full_response:` around the rules, action = "response" before them
StreamClassify(full_response) ==
    IF full_response # "" THEN Classify(full_response) ELSE "response"

\* (mutant) the test of the last character without the space: a space does not
\* close a chunk
PunctuationWithoutSpace == {",", ".", "!", "?", ":", ";", "\n"}

\* the characters after which the re-chunking closes a chunk
Punctuation == {" ", ",", ".", "!", "?", ":", ";", "\n"}

\* the loop `for i, char in enumerate(full_response)` from the character i
\* (counted from 1) up to its next yield: the chunk yielded, and the
\* character the loop goes on with
RECURSIVE Scan(_, _, _)
Scan(text, i, buffer) ==
    LET buf == buffer \o Char(text, i)
        should_yield == \/ Len(buf) > 0 /\ Char(buf, Len(buf)) \in Punctuation
                        \/ Len(buf) >= ChunkLength
                        \/ i = Len(text)
    IN  IF should_yield THEN [chunk |-> buf, next |-> i + 1]
        ELSE Scan(text, i + 1, buf)

\* (mutant) the loop without `or i == len(full_response) - 1`: what is left
\* in the buffer at the end of the text is never yielded
RechunkDropsTail(t) ==
    IF t.i <= Len(t.full_response)
    THEN LET r == Scan(t.full_response, t.i, "")
             tail == /\ r.next > Len(t.full_response)
                     /\ Len(r.chunk) < ChunkLength
                     /\ Char(r.chunk, Len(r.chunk)) \notin Punctuation
         IN  [turn |-> [t EXCEPT !.i = r.next],
              chunk |-> Content(IF tail THEN "" ELSE r.chunk)]
    ELSE LET a == StreamClassify(t.full_response)
         IN  [turn |-> [t EXCEPT !.pc = "closed", !.action = a],
              chunk |-> Done(a, t.full_response)]

\* process_message_stream after agent.invoke: the next yield
Rechunk(t) ==
    IF t.i <= Len(t.full_response)
    THEN LET r == Scan(t.full_response, t.i, "")
         IN  [turn |-> [t EXCEPT !.i = r.next], chunk |-> Content(r.chunk)]
    ELSE LET a == StreamClassify(t.full_response)
         IN  [turn |-> [t EXCEPT !.pc = "closed", !.action = a],
              chunk |-> Done(a, t.full_response)]

\* process_message_stream up to its first yield, for a turn that is called
\* with a conversation id of ids and meets a behaviour of behaviours
StreamStart(ids, behaviours) ==
    /\ turn.pc = "idle"
    /\ \E c \in ids, b \in behaviours :
          LET invoked == Invokes(c, b)
              t == [IdleTurn EXCEPT !.variant = "stream", !.conversation_id = c,
                                    !.b = b, !.action = "response",
                                    !.invoked = invoked]
              r == Rechunk([t EXCEPT !.pc = "chunking", !.i = 1,
                                     !.full_response = b.final])
          IN  /\ token_callback' = IF invoked
                                   THEN [tokens |-> b.tokens, token_queue |-> b.tokens]
                                   ELSE NewCallback
              /\ IF b.raisesAt = "create_agent"
                 THEN /\ turn' = [t EXCEPT !.pc = "closed"]
                      /\ chunks' = <<Error(Apology(b.error))>>
                 ELSE IF c \notin DOMAIN Conversations
                 THEN /\ turn' = [t EXCEPT !.pc = "closed"]
                      /\ chunks' = <<Error(StreamNotFound)>>
                 ELSE IF b.raisesAt # "none"
                 THEN /\ turn' = [t EXCEPT !.pc = "closed"]
                      /\ chunks' = <<Error(Apology(b.error))>>
                 ELSE /\ turn' = r.turn
                      /\ chunks' = <<r.chunk>>
    /\ UNCHANGED <<now, bookings, hist, running, stopPc, lastCall, reminderJob, reviewJob, cb,
                   transferVars, agent_task,
                   chatVars, toolVars>>

process_message_stream_start == StreamStart(ConversationIds, GatewayBehaviours)

\* the turns of every final text of AllTexts
process_message_stream_text ==
    StreamStart({1}, {Final(text, <<>>, "none") : text \in AllTexts \cup FinalTexts})

process_message_stream_next ==
    /\ turn.variant = "stream"
    /\ turn.pc = "chunking"
    /\ LET r == Rechunk(turn)
       IN  /\ turn' = r.turn
           /\ chunks' = Append(chunks, r.chunk)
    /\ UNCHANGED <<now, bookings, hist, running, stopPc, lastCall, reminderJob, reviewJob, cb,
                   transferVars, token_callback, agent_task,
                   chatVars, toolVars>>

(***************************************************************************)
(* process_message_stream_async.  agent.invoke runs on the worker thread   *)
(* of the executor and calls on_llm_new_token there; the generator polls   *)
(* get_new_tokens on the event loop.  get_new_tokens reads token_queue     *)
(* (the test and the join) and then rebinds it to a new list: the worker   *)
(* may run between the two.                                                *)
(***************************************************************************)
process_message_stream_async_start ==
    /\ turn.pc = "idle"
    /\ \E c \in ConversationIds, b \in GatewayBehaviours :
          LET t == [IdleTurn EXCEPT !.variant = "stream_async", !.conversation_id = c,
                                    !.b = b, !.invoked = Invokes(c, b)]
          IN  IF b.raisesAt = "create_agent"
              THEN /\ turn' = [t EXCEPT !.pc = "closed"]
                   /\ chunks' = <<Error(Apology(b.error))>>
                   /\ UNCHANGED agent_task
              ELSE IF c \notin DOMAIN Conversations
              THEN /\ turn' = [t EXCEPT !.pc = "closed"]
                   /\ chunks' = <<Error(StreamNotFound)>>
                   /\ UNCHANGED agent_task
              ELSE IF b.raisesAt = "history"
              THEN /\ turn' = [t EXCEPT !.pc = "closed"]
                   /\ chunks' = <<Error(Apology(b.error))>>
                   /\ UNCHANGED agent_task
              ELSE /\ turn' = [t EXCEPT !.pc = "poll", !.action = "response"]
                   /\ chunks' = <<>>
                   /\ agent_task' = [state |-> "running", emitted |-> 0]
    /\ token_callback' = NewCallback
    /\ UNCHANGED <<now, bookings, hist, running, stopPc, lastCall, reminderJob, reviewJob, cb,
                   transferVars,
                   chatVars, toolVars>>

\* the worker: the engine emits its next token
on_llm_new_token ==
    /\ agent_task.state = "running"
    /\ agent_task.emitted < Len(turn.b.tokens)
    /\ LET token == turn.b.tokens[agent_task.emitted + 1]
       IN  token_callback' = [tokens |-> Append(token_callback.tokens, token),
                              token_queue |-> Append(token_callback.token_queue, token)]
    /\ agent_task' = [agent_task EXCEPT !.emitted = @ + 1]
    /\ UNCHANGED <<now, bookings, hist, running, stopPc, lastCall, reminderJob, reviewJob, cb,
                   transferVars, turn, chunks,
                   chatVars, toolVars>>

\* the worker: agent.invoke returns its result or raises
agent_invoke_return ==
    /\ agent_task.state = "running"
    /\ agent_task.emitted = Len(turn.b.tokens)
    /\ agent_task' = [agent_task EXCEPT
                         !.state = IF turn.b.raisesAt = "invoke" THEN "raised" ELSE "done"]
    /\ UNCHANGED <<now, bookings, hist, running, stopPc, lastCall, reminderJob, reviewJob, cb,
                   transferVars, turn, token_callback, chunks,
                   chatVars, toolVars>>

\* (mutant) `full_response = new_tokens`
KeepsLastTokens(full_response, new_tokens) == new_tokens

\* `full_response += new_tokens` (`full_response += final_tokens`)
Accumulate(full_response, new_tokens) == full_response \o new_tokens

\* get_new_tokens in the loop `while not agent_task.done()`:
\* `if self.token_queue: tokens = "".join(self.token_queue)`
get_new_tokens_join ==
    /\ turn.pc = "poll"
    /\ agent_task.state = "running"
    /\ token_callback.token_queue # <<>>
    /\ turn' = [turn EXCEPT !.pc = "clear",
                            !.new_tokens = join(token_callback.token_queue)]
    /\ UNCHANGED <<now, bookings, hist, running, stopPc, lastCall, reminderJob, reviewJob, cb,
                   transferVars, token_callback, agent_task, chunks,
                   chatVars, toolVars>>

\* `self.token_queue = []; return tokens`, then `if new_tokens:` and the yield
get_new_tokens_clear ==
    /\ turn.pc = "clear"
    /\ token_callback' = [token_callback EXCEPT !.token_queue = <<>>]
    /\ IF turn.new_tokens # ""
       THEN /\ turn' = [turn EXCEPT !.pc = "poll", !.new_tokens = "",
                                    !.full_response =
                                        Accumulate(turn.full_response, turn.new_tokens)]
            /\ chunks' = Append(chunks, Content(turn.new_tokens))
       ELSE /\ turn' = [turn EXCEPT !.pc = "poll"]
            /\ UNCHANGED chunks
    /\ UNCHANGED <<now, bookings, hist, running, stopPc, lastCall, reminderJob, reviewJob, cb,
                   transferVars, agent_task,
                   chatVars, toolVars>>

\* the loop ends; `result = await agent_task` gives the result or raises
stream_async_await ==
    /\ turn.pc = "poll"
    /\ agent_task.state \in {"done", "raised"}
    /\ IF agent_task.state = "raised"
       THEN /\ turn' = [turn EXCEPT !.pc = "closed"]
            /\ chunks' = Append(chunks, Error(Apology(turn.b.error)))
       ELSE /\ turn' = [turn EXCEPT !.pc = "flush"]
            /\ UNCHANGED chunks
    /\ UNCHANGED <<now, bookings, hist, running, stopPc, lastCall, reminderJob, reviewJob, cb,
                   transferVars, token_callback, agent_task,
                   chatVars, toolVars>>

\* `final_tokens = token_callback.get_new_tokens()`: the worker is over
stream_async_flush ==
    /\ turn.pc = "flush"
    /\ LET final_tokens == join(token_callback.token_queue)
       IN  /\ token_callback' = [token_callback EXCEPT !.token_queue = <<>>]
           /\ IF final_tokens # ""
              THEN /\ turn' = [turn EXCEPT !.pc = "fallback",
                                           !.full_response =
                                               Accumulate(turn.full_response, final_tokens)]
                   /\ chunks' = Append(chunks, Content(final_tokens))
              ELSE /\ turn' = [turn EXCEPT !.pc = "fallback"]
                   /\ UNCHANGED chunks
    /\ UNCHANGED <<now, bookings, hist, running, stopPc, lastCall, reminderJob, reviewJob, cb,
                   transferVars, agent_task,
                   chatVars, toolVars>>

\* (mutant) the last message is yielded whatever was streamed before
NeedsFallbackAlways(full_response) == TRUE

\* `if not full_response:`
NeedsFallback(full_response) == full_response = ""

\* the full response from the result, if nothing has been streamed
stream_async_fallback ==
    /\ turn.pc = "fallback"
    /\ IF NeedsFallback(turn.full_response)
       THEN /\ turn' = [turn EXCEPT !.pc = "classify", !.full_response = turn.b.final,
                                    !.fallback = TRUE]
            /\ chunks' = IF turn.b.final # ""
                         THEN Append(chunks, Content(turn.b.final)) ELSE chunks
       ELSE /\ turn' = [turn EXCEPT !.pc = "classify"]
            /\ UNCHANGED chunks
    /\ UNCHANGED <<now, bookings, hist, running, stopPc, lastCall, reminderJob, reviewJob, cb,
                   transferVars, token_callback, agent_task,
                   chatVars, toolVars>>

\* the action, and the done chunk
stream_async_done ==
    /\ turn.pc = "classify"
    /\ LET a == StreamClassify(turn.full_response)
       IN  /\ turn' = [turn EXCEPT !.pc = "closed", !.action = a]
           /\ chunks' = Append(chunks, Done(a, turn.full_response))
    /\ UNCHANGED <<now, bookings, hist, running, stopPc, lastCall, reminderJob, reviewJob, cb,
                   transferVars, token_callback, agent_task,
                   chatVars, toolVars>>

(***************************************************************************)
(* The clock.                                                              *)
(***************************************************************************)
Advance ==
    /\ \E t \in ClockReadings : t > now /\ now' = t
    /\ UNCHANGED <<bookings, hist, running, stopPc, lastCall, reminderJob, reviewJob, cb,
                   transferVars, turnVars,
                   chatVars, toolVars>>

\* the clock read between the runs of the jobs and the tool calls: a run
\* is short against the distance of two readings, and a job or a call reads
\* the clock once, as it begins
AdvanceBetweenRuns ==
    /\ JobsIdle
    /\ cb.pc = "idle"
    /\ \E t \in ClockReadings : t > now /\ now' = t
    /\ UNCHANGED <<bookings, hist, running, stopPc, lastCall, reminderJob, reviewJob, cb,
                   transferVars, turnVars,
                   chatVars, toolVars>>

(***************************************************************************)
(* The reminder job on its trigger, IntervalTrigger(minutes=5): the clock  *)
(* of a run is the clock of the run before plus the interval.  A run is    *)
(* short against the interval: the trigger finds the job idle.  The clock  *)
(* is followed from three intervals before the window of the reminders of  *)
(* an appointment opens to two intervals after it has closed, for every    *)
(* phase of the trigger against the appointment.                           *)
(***************************************************************************)
IntervalStart ==
    Instant(<<2030, 1, 3, 0, 0>>) - ReminderLeadHours * 60 - ReminderWindowMinutes
        - 3 * ReminderIntervalMinutes

IntervalEnd ==
    Instant(<<2030, 1, 3, 0, 0>>) - ReminderLeadHours * 60 + ReminderWindowMinutes
        + 2 * ReminderIntervalMinutes

\* the trigger fires and the executor runs _send_booking_reminders
booking_reminders_trigger ==
    /\ running
    /\ reminderJob.pc = "idle"
    /\ now + ReminderIntervalMinutes <= IntervalEnd
    /\ now' = now + ReminderIntervalMinutes
    /\ \/ reminderJob' =
             [JobBegin("reminder_sent",
                       Select(bookings, LAMBDA r : ReminderFilter(r, now')))
                 EXCEPT !.now = now']
       \/ reminderJob' = [JobQueryFails EXCEPT !.now = now']
    /\ UNCHANGED <<bookings, hist, running, stopPc, lastCall, reviewJob, cb,
                   transferVars, turnVars, chatVars, toolVars>>

(***************************************************************************)
(* /chat and /voice (api/routes.py).  A request runs on a thread of its    *)
(* own (chat is a `def` route) with a Session of its own; the steps of two *)
(* requests interleave at the statements that reach the database.          *)
(* voice_call is a coroutine: its get-or-create block has no await, so two *)
(* voice requests do not interleave inside it, a chat request does.        *)
(* A row of "messages" is [conversation_id, role, content, created_at];    *)
(* created_at is func.now(), which counts whole seconds.                   *)
(***************************************************************************)
Requests == {1, 2}

UserIds == {"user_a", "user_b"}

\* request.message of the n-th /chat request
UserTexts == [n \in 1..(MaxSent + 1) |-> <<"Message", n>>]

\* what the gateway does in the turns of /chat
ChatBehaviours ==
    {b \in GatewayBehaviours :
        \/ b.final = "Your booking is confirmed."
        \/ b.raisesAt = "invoke"}

NewRequest ==
    [handler |-> "none", pc |-> "idle", user_id |-> "", message |-> <<>>,
     conversation |-> 0, user_message |-> 0, loaded |-> 0, input |-> <<>>,
     result |-> [response |-> "", action |-> ""]]

ChatInit ==
    /\ conversations = <<>>
    /\ messages = <<>>
    /\ clock = 0
    /\ requests = [r \in Requests |-> NewRequest]
    /\ posts = 0
    /\ served = [u \in UserIds |-> 0]

\* .filter(Conversation.user_id == user_id).first(): the id of the row, 0
\* for None
ConversationOf(user_id) ==
    IF \E c \in 1..Len(conversations) : conversations[c] = user_id
    THEN CHOOSE c \in 1..Len(conversations) : conversations[c] = user_id
    ELSE 0

\* the request is given the first thread that is free
FreeThread(r) ==
    /\ requests[r].pc = "idle"
    /\ \A o \in Requests : o < r => requests[o].pc # "idle"

\* the client calls POST /chat for user u, and thread r serves the request
chat_request(r, u) ==
    /\ requests[r].pc = "idle"
    /\ posts < MaxSent
    /\ posts' = posts + 1
    /\ requests' = [requests EXCEPT ![r] =
          [NewRequest EXCEPT !.handler = "chat", !.pc = "lookup", !.user_id = u,
                             !.message = UserTexts[posts + 1]]]
    /\ UNCHANGED <<conversations, messages, clock, served>>
    /\ UNCHANGED <<now, bookings, hist, running, stopPc, lastCall, reminderJob,
                   reviewJob, cb, transferVars, turnVars, toolVars>>

chat == \E r \in Requests, u \in UserIds : FreeThread(r) /\ chat_request(r, u)

\* the client opens the websocket /voice
voice_call ==
    \E r \in Requests, u \in UserIds :
        /\ FreeThread(r)
        /\ requests' = [requests EXCEPT ![r] =
              [NewRequest EXCEPT !.handler = "voice", !.pc = "lookup", !.user_id = u]]
        /\ UNCHANGED <<conversations, messages, clock, posts, served>>
        /\ UNCHANGED <<now, bookings, hist, running, stopPc, lastCall, reminderJob,
                       reviewJob, cb, transferVars, turnVars, toolVars>>

\* the statement after the get-or-create block
AfterConversation(handler) == IF handler = "chat" THEN "save_user" ELSE "session"

\* no other voice request is inside its get-or-create block
LoopFree(r) ==
    requests[r].handler = "voice" =>
        \A o \in Requests \ {r} :
            ~(requests[o].handler = "voice" /\ requests[o].pc = "create")

\* db.query(Conversation).filter(...).first() and `if not conversation`
get_or_create_query ==
    \E r \in Requests :
        /\ requests[r].pc = "lookup"
        /\ LoopFree(r)
        /\ LET c == ConversationOf(requests[r].user_id)
           IN  requests' = [requests EXCEPT ![r] =
                  IF c # 0
                  THEN [requests[r] EXCEPT !.conversation = c, !.pc = AfterConversation(requests[r].handler)]
                  ELSE [requests[r] EXCEPT !.pc = "create"]]
        /\ UNCHANGED <<conversations, messages, clock, posts, served>>
        /\ UNCHANGED <<now, bookings, hist, running, stopPc, lastCall, reminderJob,
                       reviewJob, cb, transferVars, turnVars, toolVars>>

\* the INSERT of db.commit() meets the unique index on user_id
UniqueViolation(user_id) == ConversationOf(user_id) # 0

\* Conversation(user_id=...), db.add, db.commit, db.refresh.  IntegrityError
\* is caught nowhere in chat nor around the block of voice_call: the request
\* ends with it.
get_or_create_commit ==
    \E r \in Requests :
        /\ requests[r].pc = "create"
        /\ IF UniqueViolation(requests[r].user_id)
           THEN /\ requests' = [requests EXCEPT ![r].pc = "failed"]
                /\ UNCHANGED conversations
           ELSE /\ conversations' = Append(conversations, requests[r].user_id)
                /\ requests' = [requests EXCEPT ![r] =
                      [requests[r] EXCEPT !.conversation = Len(conversations) + 1,
                                !.pc = AfterConversation(requests[r].handler)]]
        /\ UNCHANGED <<messages, clock, posts, served>>
        /\ UNCHANGED <<now, bookings, hist, running, stopPc, lastCall, reminderJob,
                       reviewJob, cb, transferVars, turnVars, toolVars>>

NewMessage(conversation_id, role, content) ==
    [conversation_id |-> conversation_id, role |-> role, content |-> content,
     created_at |-> clock]

\* "Save user message": Message(...), db.add, db.commit
chat_save_user ==
    \E r \in Requests :
        /\ requests[r].pc = "save_user"
        /\ messages' = Append(messages,
              NewMessage(requests[r].conversation, "user", requests[r].message))
        /\ requests' = [requests EXCEPT ![r] =
              [requests[r] EXCEPT !.user_message = Len(messages) + 1, !.pc = "load"]]
        /\ UNCHANGED <<conversations, clock, posts, served>>
        /\ UNCHANGED <<now, bookings, hist, running, stopPc, lastCall, reminderJob,
                       reviewJob, cb, transferVars, turnVars, toolVars>>

\* (mutant) the history query without its filter on the conversation
RowsOfAny(conversation_id) == 1..Len(messages)

\* .filter(Message.conversation_id == conversation_id): the ids of the rows
RowsOf(conversation_id) ==
    {m \in 1..Len(messages) : messages[m].conversation_id = conversation_id}

\* .order_by(Message.created_at).all(): the rows in an order of their
\* created_at; rows of the same second come in any order
RECURSIVE Ordered(_)
Ordered(rows) ==
    IF rows = {} THEN {<<>>}
    ELSE UNION {{<<m>> \o order : order \in Ordered(rows \ {m})} :
                   m \in {e \in rows : \A o \in rows :
                              messages[e].created_at <= messages[o].created_at}}

\* one entry of messages_list; id is the row the entry was made from (0 for
\* the entry made from the argument user_message) and is not sent
Entry(role, content, id) == [role |-> role, content |-> content, id |-> id]

\* `for msg in messages[:-1]`, then `+ [{"role": "user", "content": user_message}]`
AgentInput(order, user_message) ==
    [k \in 1..(Len(order) - 1) |->
        Entry(IF messages[order[k]].role = "user" THEN "user" ELSE "assistant",
              messages[order[k]].content, order[k])]
        \o <<Entry("user", user_message, 0)>>

\* process_message up to agent.invoke: the agent is built, the conversation
\* is found, the history is read and the input of the gateway is made
process_message_load ==
    \E r \in Requests :
        /\ requests[r].pc = "load"
        /\ \E order \in Ordered(RowsOf(requests[r].conversation)) :
              requests' = [requests EXCEPT ![r] =
                  [requests[r] EXCEPT !.loaded = Len(messages),
                                      !.input = AgentInput(order, requests[r].message),
                                      !.pc = "invoke"]]
        /\ UNCHANGED <<conversations, messages, clock, posts, served>>
        /\ UNCHANGED <<now, bookings, hist, running, stopPc, lastCall, reminderJob,
                       reviewJob, cb, transferVars, turnVars, toolVars>>

\* what process_message returns once the conversation is found
chat_turn_result(b) ==
    IF b.raisesAt # "none"
    THEN [response |-> Apology(b.error), action |-> "error"]
    ELSE [response |-> b.final, action |-> Classify(b.final)]

\* agent.invoke and what follows it in process_message
process_message_invoke ==
    \E r \in Requests, b \in ChatBehaviours :
        /\ requests[r].pc = "invoke"
        /\ requests' = [requests EXCEPT ![r] =
              [requests[r] EXCEPT !.pc = "save_assistant", !.input = <<>>,
                                  !.loaded = 0, !.result = chat_turn_result(b)]]
        /\ UNCHANGED <<conversations, messages, clock, posts, served>>
        /\ UNCHANGED <<now, bookings, hist, running, stopPc, lastCall, reminderJob,
                       reviewJob, cb, transferVars, turnVars, toolVars>>

\* (mutant) a turn of the error category stores no assistant message
AssistantRowsUnlessError(r) ==
    IF requests[r].result.action = "error" THEN <<>>
    ELSE <<NewMessage(requests[r].conversation, "assistant", requests[r].result.response)>>

\* "Save assistant message": the rows the request adds
AssistantRows(r) ==
    <<NewMessage(requests[r].conversation, "assistant", requests[r].result.response)>>

\* Message(role="assistant", content=response), db.add, db.commit, return
chat_save_assistant ==
    \E r \in Requests :
        /\ requests[r].pc = "save_assistant"
        /\ messages' = messages \o AssistantRows(r)
        /\ requests' = [requests EXCEPT ![r].pc = "returned"]
        /\ served' = [served EXCEPT ![requests[r].user_id] = @ + 1]
        /\ UNCHANGED <<conversations, clock, posts>>
        /\ UNCHANGED <<now, bookings, hist, running, stopPc, lastCall, reminderJob,
                       reviewJob, cb, transferVars, turnVars, toolVars>>

\* the response is sent (chat), the realtime session is over (voice), or
\* the request has ended with its exception
request_done ==
    \E r \in Requests :
        /\ requests[r].pc \in {"returned", "session", "failed"}
        /\ requests' = [requests EXCEPT ![r] = NewRequest]
        /\ UNCHANGED <<conversations, messages, clock, posts, served>>
        /\ UNCHANGED <<now, bookings, hist, running, stopPc, lastCall, reminderJob,
                       reviewJob, cb, transferVars, turnVars, toolVars>>

\* a second of the database clock passes
tick ==
    /\ clock < MaxClock
    /\ clock' = clock + 1
    /\ UNCHANGED <<conversations, messages, requests, posts, served>>
    /\ UNCHANGED <<now, bookings, hist, running, stopPc, lastCall, reminderJob,
                   reviewJob, cb, transferVars, turnVars, toolVars>>

(***************************************************************************)
(* agent.invoke: the tool-calling loop of the agent create_agent builds.   *)
(* The graph alternates its two nodes: the model node calls the gateway,   *)
(* the tools node runs the tools the gateway asked for.  Each run of a     *)
(* node is a step; a graph that has run recursion_limit steps and has not  *)
(* come to its end raises GraphRecursionError.  process_message passes no  *)
(* recursion_limit: the limit is the default of the library.               *)
(***************************************************************************)
Tools == {"calendar_tool", "booking_tool", "transfer_tool"}

LoopTexts == {"Your booking is confirmed.", "Hi there, I can help with that."}

RecursionError == "Recursion limit reached without hitting a stop condition"

IdleLoop ==
    [pc |-> "idle", steps |-> 0, ran |-> <<>>, invocations |-> 0,
     result |-> [response |-> "", action |-> ""]]

\* (mutant) a graph that is never stopped
LimitNever(steps) == FALSE

\* the graph has run its recursion_limit of steps
LimitReached(steps) == steps >= RecursionLimit

\* the step counter; it is not read beyond the limit
Step(steps) == Min(steps + 1, RecursionLimit)

\* process_message is called and calls agent.invoke
agent_invoke ==
    /\ agent_loop.pc = "idle"
    /\ agent_loop' = [IdleLoop EXCEPT !.pc = "model", !.invocations = 1]
    /\ UNCHANGED <<cal, sms>>
    /\ UNCHANGED <<now, bookings, hist, running, stopPc, lastCall, reminderJob,
                   reviewJob, cb, transferVars, turnVars, chatVars>>

\* what process_message returns when agent.invoke raises
LoopError(e) == [response |-> Apology(e), action |-> "error"]

\* the model node: the gateway answers with a final message, asks for a
\* tool, or the call raises
agent_model ==
    /\ agent_loop.pc = "model"
    /\ IF LimitReached(agent_loop.steps)
       THEN agent_loop' = [agent_loop EXCEPT !.pc = "returned",
                                             !.result = LoopError(RecursionError)]
       ELSE \/ \E text \in LoopTexts :
                  agent_loop' = [agent_loop EXCEPT
                      !.pc = "returned", !.steps = Step(@),
                      !.result = [response |-> text, action |-> Classify(text)]]
            \/ agent_loop' = [agent_loop EXCEPT !.pc = "tools", !.steps = Step(@)]
            \/ agent_loop' = [agent_loop EXCEPT
                      !.pc = "returned", !.result = LoopError("connection lost")]
    /\ UNCHANGED <<cal, sms>>
    /\ UNCHANGED <<now, bookings, hist, running, stopPc, lastCall, reminderJob,
                   reviewJob, cb, transferVars, turnVars, chatVars>>

\* the tools node: the tool runs and returns str(result)
agent_tools ==
    /\ agent_loop.pc = "tools"
    /\ IF LimitReached(agent_loop.steps)
       THEN agent_loop' = [agent_loop EXCEPT !.pc = "returned",
                                             !.result = LoopError(RecursionError)]
       ELSE \E t \in Tools :
                agent_loop' = [agent_loop EXCEPT !.pc = "model", !.steps = Step(@),
                                                 !.ran = Append(@, t)]
    /\ UNCHANGED <<cal, sms>>
    /\ UNCHANGED <<now, bookings, hist, running, stopPc, lastCall, reminderJob,
                   reviewJob, cb, transferVars, turnVars, chatVars>>

\* the caller has the result of process_message
agent_done ==
    /\ agent_loop.pc = "returned"
    /\ agent_loop' = IdleLoop
    /\ UNCHANGED <<cal, sms>>
    /\ UNCHANGED <<now, bookings, hist, running, stopPc, lastCall, reminderJob,
                   reviewJob, cb, transferVars, turnVars, chatVars>>

(***************************************************************************)
(* GoogleCalendarService.get_available_slots (services/google_calendar.py) *)
(* and check_calendar (agents/tools/calendar_tool.py).  Times are minutes  *)
(* from 00:00 of the target date.  An event of the answer of events().list *)
(* is [start, end], the instants of the event on the clock of Asia/Jakarta;*)
(* the answer spells them in the time zone of the calendar (or in UTC),    *)
(* and the code drops the offset: `.replace(tzinfo=None)`.                 *)
(***************************************************************************)
Max(a, b) == IF a > b THEN a ELSE b

DayStart == WorkStartHour * 60

DayEnd == WorkEndHour * 60

\* f"{current_time.strftime('%H:%M')} - {slot_end.strftime('%H:%M')}": the
\* four numbers the text spells
SlotText(from, to) ==
    <<(from % 1440) \div 60, from % 60, (to % 1440) \div 60, to % 60>>

NewSlot(current_time) ==
    [start |-> current_time, end |-> current_time + DurationMinutes,
     text |-> SlotText(current_time, current_time + DurationMinutes)]

\* `while current_time + timedelta(minutes=duration_minutes) <= limit`: the
\* slots the loop appends
RECURSIVE SlotsUntil(_, _)
SlotsUntil(current_time, limit) ==
    IF current_time + DurationMinutes <= limit
    THEN <<NewSlot(current_time)>> \o SlotsUntil(current_time + DurationMinutes, limit)
    ELSE <<>>

\* `for event in events` from the k-th event on, then the loop "until 5 PM"
RECURSIVE SlotsFrom(_, _, _)
SlotsFrom(events, k, current_time) ==
    IF k > Len(events) THEN SlotsUntil(current_time, DayEnd)
    ELSE LET before == SlotsUntil(current_time, events[k].start)
             reached == current_time + Len(before) * DurationMinutes
         IN  before \o SlotsFrom(events, k + 1, Max(reached, events[k].end))

\* the events as the code reads them: the offset of the spelling dropped
Naive(events, offset) ==
    [k \in 1..Len(events) |->
        [start |-> events[k].start + offset, end |-> events[k].end + offset]]

get_available_slots(events, offset) == SlotsFrom(Naive(events, offset), 1, DayStart)

\* the instants of the events, on the clock of Asia/Jakarta
EventTimes == {480, 540, 555, 600, 990, 1005, 1020, 1080}

\* timeMin = 09:00 and timeMax = 17:00 of Asia/Jakarta: an event of the
\* answer ends after timeMin and starts before timeMax
Events ==
    {[start |-> s, end |-> e] : s \in EventTimes, e \in EventTimes} \cap
    {ev \in [start : EventTimes, end : EventTimes] :
        ev.start < ev.end /\ ev.start < DayEnd /\ ev.end > DayStart}

\* orderBy='startTime'
EventLists ==
    UNION {{l \in [1..n -> Events] :
               \A i, j \in 1..n : i < j => l[i].start <= l[j].start} : n \in 0..MaxEvents}

\* the offset of the spelling against Asia/Jakarta, in minutes: UTC ('Z'),
\* Asia/Jakarta, Asia/Makassar
Offsets == {-420, 0, 60}

\* what the collaborator does in a call: the constructor raises, the
\* request raises, an event of the answer has a time fromisoformat refuses
\* (ValueError), or the answer is a list of events
Collaborations ==
    {[kind |-> k, events |-> <<>>, offset |-> 0] :
        k \in {"init_raises", "list_raises", "bad_event"}}
    \cup {[kind |-> "events", events |-> l, offset |-> o] : l \in EventLists, o \in Offsets}

\* the texts check_calendar is called with, and the date a text spells
CalendarInputs ==
    { [text |-> "today", ymd |-> <<0, 0, 0>>],
      [text |-> "TODAY", ymd |-> <<0, 0, 0>>],
      [text |-> "Tomorrow", ymd |-> <<0, 0, 0>>],
      [text |-> "next Friday-ish", ymd |-> <<0, 0, 0>>],
      [text |-> "2030-01-03", ymd |-> <<2030, 1, 3>>],
      [text |-> "2030-02-30", ymd |-> <<2030, 2, 30>>] }

\* datetime.strptime(date_str, "%Y-%m-%d") does not raise
Parsable(input) == WellFormed(<<input.ymd[1], input.ymd[2], input.ymd[3], 0, 0>>)

\* date_str.lower() == "today" / "tomorrow"
IsKeyword(input) == lower(input.text) \in {"today", "tomorrow"}

InvalidDate ==
    [status |-> "error",
     message |-> "Invalid date format. Please use YYYY-MM-DD or say 'today/tomorrow'",
     available_slots |-> <<>>]

LookupFailed(e) ==
    [status |-> "error", message |-> "Error checking calendar: " \o e,
     available_slots |-> <<>>]

SlotsFound(available_slots) ==
    [status |-> "success", message |-> "Available slots", available_slots |-> available_slots]

\* `except ValueError` and `except Exception as e`
CalendarHandler(type, e) ==
    IF type = "ValueError" THEN InvalidDate ELSE LookupFailed(e)

IdleCalendar ==
    [pc |-> "idle", input |-> [text |-> "", ymd |-> <<0, 0, 0>>],
     collab |-> [kind |-> "none", events |-> <<>>, offset |-> 0],
     result |-> [status |-> "", message |-> "", available_slots |-> <<>>]]

\* check_calendar is called and parses the date
check_calendar ==
    /\ cal.pc = "idle"
    /\ \E input \in CalendarInputs :
          cal' = IF IsKeyword(input) \/ Parsable(input)
                 THEN [cal EXCEPT !.pc = "lookup", !.input = input]
                 ELSE [cal EXCEPT !.pc = "returned", !.input = input,
                                  !.result = CalendarHandler("ValueError", "")]
    /\ UNCHANGED <<agent_loop, sms>>
    /\ UNCHANGED <<now, bookings, hist, running, stopPc, lastCall, reminderJob,
                   reviewJob, cb, transferVars, turnVars, chatVars>>

\* GoogleCalendarService() and get_available_slots(str(target_date))
check_calendar_lookup ==
    /\ cal.pc = "lookup"
    /\ \E c \in Collaborations :
          cal' = [cal EXCEPT
              !.pc = "returned", !.collab = c,
              !.result =
                  CASE c.kind = "init_raises" ->
                           CalendarHandler("Exception",
                               "Failed to initialize Google Calendar service")
                    [] c.kind = "list_raises" -> CalendarHandler("HttpError", "HttpError 503")
                    [] c.kind = "bad_event" -> CalendarHandler("ValueError", "")
                    [] OTHER -> SlotsFound(get_available_slots(c.events, c.offset))]
    /\ UNCHANGED <<agent_loop, sms>>
    /\ UNCHANGED <<now, bookings, hist, running, stopPc, lastCall, reminderJob,
                   reviewJob, cb, transferVars, turnVars, chatVars>>

\* calendar_tool has returned str(result)
check_calendar_done ==
    /\ cal.pc = "returned"
    /\ cal' = IdleCalendar
    /\ UNCHANGED <<agent_loop, sms>>
    /\ UNCHANGED <<now, bookings, hist, running, stopPc, lastCall, reminderJob,
                   reviewJob, cb, transferVars, turnVars, chatVars>>

(***************************************************************************)
(* TwilioService (services/sms_service.py): send_sms and the three         *)
(* functions that build a text and call it.                                *)
(***************************************************************************)
Phones == {"+628123456789", "+628111111111", "08123"}

Bodies == {"Hello", ""}

owner_phone_number == "+628999999999"

\* the calls made to the service: the function and its arguments
SmsCalls ==
    {[fn |-> "send_sms", to |-> p, arg |-> b] : p \in Phones, b \in Bodies}
    \cup {[fn |-> "send_reminder_sms", to |-> p, arg |-> d] :
             p \in Phones, d \in {"2030-01-02 09:00", "2030-01-03 14:30"}}
    \cup {[fn |-> "send_review_request_sms", to |-> p, arg |-> ""] : p \in Phones}
    \cup {[fn |-> "send_transfer_notification", to |-> owner_phone_number, arg |-> r] :
             r \in {"complaint", ""}}

\* the text the function passes to send_sms
SmsText(c) ==
    CASE c.fn = "send_reminder_sms" ->
             "Reminder: You have a booking scheduled for " \o c.arg
                 \o ". Please confirm by replying to this message."
      [] c.fn = "send_review_request_sms" ->
             "Thank you for using our service! Please leave a review here: "
                 \o "https://maps.app.goo.gl/review"
      [] c.fn = "send_transfer_notification" -> "[Call Transfer] " \o c.arg
      [] OTHER -> c.arg

\* what self.client.messages.create does: it returns a message, it raises,
\* or it never returns (no timeout is passed to Client or to the request)
ProviderOutcomes == {"sent", "rest_exception", "connection_error", "hangs"}

NoSmsResult == [status |-> "", to |-> "", message |-> "", note |-> "", sid |-> ""]

TestMode(to_number, message) ==
    [status |-> "success", to |-> to_number, message |-> message,
     note |-> "Twilio not configured - running in test mode", sid |-> ""]

SmsSent(to_number, message) ==
    [status |-> "success", to |-> to_number, message |-> message, note |-> "",
     sid |-> "SM1"]

\* (mutant) `except TwilioRestException`: another exception leaves send_sms
SmsErrorOfRest(e) ==
    IF e = "rest_exception"
    THEN [status |-> "error", to |-> "", message |-> "Error sending SMS: " \o e,
          note |-> "", sid |-> ""]
    ELSE [status |-> "raised", to |-> "", message |-> e, note |-> "", sid |-> ""]

\* `except Exception as e`
SmsError(e) ==
    [status |-> "error", to |-> "", message |-> "Error sending SMS: " \o e,
     note |-> "", sid |-> ""]

IdleSms ==
    [pc |-> "idle", fn |-> "none", client |-> FALSE, to |-> "", message |-> "",
     provider |-> "none", calls |-> 0, inner |-> NoSmsResult, result |-> NoSmsResult]

\* one of the four functions is called, on a service with or without a client
sms_call ==
    /\ sms.pc = "idle"
    /\ \E c \in SmsCalls, client \in BOOLEAN :
          sms' = [IdleSms EXCEPT !.pc = "send_sms", !.fn = c.fn, !.client = client,
                                 !.to = c.to, !.message = SmsText(c)]
    /\ UNCHANGED <<agent_loop, cal>>
    /\ UNCHANGED <<now, bookings, hist, running, stopPc, lastCall, reminderJob,
                   reviewJob, cb, transferVars, turnVars, chatVars>>

\* send_sms up to self.client.messages.create
send_sms ==
    /\ sms.pc = "send_sms"
    /\ IF ~sms.client
       THEN sms' = [sms EXCEPT !.pc = "sent", !.inner = TestMode(sms.to, sms.message)]
       ELSE \E o \in ProviderOutcomes :
               sms' = [sms EXCEPT !.pc = "calling", !.provider = o, !.calls = sms.calls + 1]
    /\ UNCHANGED <<agent_loop, cal>>
    /\ UNCHANGED <<now, bookings, hist, running, stopPc, lastCall, reminderJob,
                   reviewJob, cb, transferVars, turnVars, chatVars>>

\* self.client.messages.create returns or raises
messages_create ==
    /\ sms.pc = "calling"
    /\ sms.provider # "hangs"
    /\ sms' = [sms EXCEPT
           !.pc = "sent",
           !.inner = IF sms.provider = "sent" THEN SmsSent(sms.to, sms.message)
                     ELSE SmsError(sms.provider)]
    /\ UNCHANGED <<agent_loop, cal>>
    /\ UNCHANGED <<now, bookings, hist, running, stopPc, lastCall, reminderJob,
                   reviewJob, cb, transferVars, turnVars, chatVars>>

\* `return self.send_sms(...)`
sms_return ==
    /\ sms.pc = "sent"
    /\ sms' = [sms EXCEPT !.pc = "returned", !.result = sms.inner]
    /\ UNCHANGED <<agent_loop, cal>>
    /\ UNCHANGED <<now, bookings, hist, running, stopPc, lastCall, reminderJob,
                   reviewJob, cb, transferVars, turnVars, chatVars>>

\* the caller has the result
sms_done ==
    /\ sms.pc = "returned"
    /\ sms' = IdleSms
    /\ UNCHANGED <<agent_loop, cal>>
    /\ UNCHANGED <<now, bookings, hist, running, stopPc, lastCall, reminderJob,
                   reviewJob, cb, transferVars, turnVars, chatVars>>

(***************************************************************************)
(* The tools and services a turn calls.                                    *)
(***************************************************************************)
ToolInit ==
    /\ agent_loop = IdleLoop
    /\ cal = IdleCalendar
    /\ sms = IdleSms

(***************************************************************************)
(* Specifications.                                                         *)
(*   Spec          the service from its construction: everything.          *)
(*   SweepSpec     the service after startup_event, the scheduler running  *)
(*                 for good: the two jobs, create_booking and the clock.   *)
(*   LifecycleSpec start() and stop() in any order around the two jobs,    *)
(*                 over a table that holds two bookings of an earlier run. *)
(*   BookingSpec   create_booking and the clock.                           *)
(*   TransferSpec  transfer_call.                                          *)
(*   TurnSpec      one turn after the other, each by process_message or by *)
(*                 one of its two streams, over GatewayBehaviours.         *)
(*   TurnFairSpec  TurnSpec where a stream that has begun is read on and   *)
(*                 agent.invoke comes to its end.                          *)
(*   RechunkSpec   process_message_stream over every final text of         *)
(*                 AllTexts.                                               *)
(***************************************************************************)
NoCall == [op |-> "none", before |-> FALSE, after |-> FALSE, raised |-> FALSE]

Init ==
    /\ now = StartOfTime
    /\ bookings = <<>>
    /\ hist = <<>>
    /\ running = FALSE
    /\ stopPc = "idle"
    /\ lastCall = NoCall
    /\ reminderJob = IdleJob
    /\ reviewJob = IdleJob
    /\ cb = IdleCall
    /\ TransferInit
    /\ TurnInit
    /\ ChatInit
    /\ ToolInit

JobNext ==
    \/ send_booking_reminders_begin
    \/ send_booking_reminders_record
    \/ send_booking_reminders_end
    \/ send_booking_reminders_return
    \/ send_review_requests_begin
    \/ send_review_requests_record
    \/ send_review_requests_end
    \/ send_review_requests_return

BookingNext ==
    \/ create_booking_call
    \/ create_booking_insert
    \/ create_booking_calendar
    \/ create_booking_sms
    \/ create_booking_return
    \/ create_booking_done

LifecycleNext ==
    \/ start_scheduler
    \/ stop_scheduler
    \/ stop_scheduler_return

TransferNext ==
    \/ transfer_call_insert
    \/ transfer_call_lookup
    \/ transfer_call_notify
    \/ transfer_call_done

StreamAsyncNext ==
    \/ on_llm_new_token
    \/ agent_invoke_return
    \/ get_new_tokens_join
    \/ get_new_tokens_clear
    \/ stream_async_await
    \/ stream_async_flush
    \/ stream_async_fallback
    \/ stream_async_done

TurnNext ==
    \/ process_message
    \/ process_message_stream_start
    \/ process_message_stream_next
    \/ process_message_stream_async_start
    \/ StreamAsyncNext
    \/ turn_done

Next == Advance \/ LifecycleNext \/ JobNext \/ BookingNext \/ TransferNext \/ TurnNext

Spec == Init /\ [][Next]_vars

StartedInit ==
    /\ now = StartOfTime
    /\ bookings = <<>>
    /\ hist = <<>>
    /\ running = TRUE
    /\ stopPc = "idle"
    /\ lastCall = [op |-> "start", before |-> FALSE, after |-> TRUE, raised |-> FALSE]
    /\ reminderJob = IdleJob
    /\ reviewJob = IdleJob
    /\ cb = IdleCall
    /\ TransferInit
    /\ TurnInit
    /\ ChatInit
    /\ ToolInit

SweepNext == AdvanceBetweenRuns \/ JobNext \/ BookingNext

SweepSpec == StartedInit /\ [][SweepNext]_vars

BookedInit ==
    /\ now = StartOfTime
    /\ bookings = [i \in 1..2 |-> NewBooking(Instant(<<2030, 1, 3, 0, 0>>))]
    /\ hist = [i \in 1..2 |-> NewHist]
    /\ running = FALSE
    /\ stopPc = "idle"
    /\ lastCall = NoCall
    /\ reminderJob = IdleJob
    /\ reviewJob = IdleJob
    /\ cb = IdleCall
    /\ TransferInit
    /\ TurnInit
    /\ ChatInit
    /\ ToolInit

LifecycleActions == AdvanceBetweenRuns \/ LifecycleNext \/ JobNext

LifecycleSpec == BookedInit /\ [][LifecycleActions]_vars

BookingActions == Advance \/ BookingNext

BookingSpec == Init /\ [][BookingActions]_vars

TransferSpec == Init /\ [][TransferNext]_vars

TurnSpec == Init /\ [][TurnNext]_vars

TurnFairSpec ==
    Init /\ [][TurnNext]_vars /\ WF_vars(process_message_stream_next \/ StreamAsyncNext)

RechunkNext ==
    \/ process_message_stream_text
    \/ process_message_stream_next
    \/ turn_done

RechunkSpec == Init /\ [][RechunkNext]_vars

LoopNext ==
    \/ agent_invoke
    \/ agent_model
    \/ agent_tools
    \/ agent_done

\* a call of the gateway and a run of a tool come to their end
LoopFairSpec == Init /\ [][LoopNext]_vars /\ WF_vars(agent_model \/ agent_tools)

\* the scheduler has been started, a moment before the trigger first fires
IntervalInit ==
    /\ now \in IntervalStart..(IntervalStart + ReminderIntervalMinutes - 1)
    /\ bookings = <<>>
    /\ hist = <<>>
    /\ running = TRUE
    /\ stopPc = "idle"
    /\ lastCall = [op |-> "start", before |-> FALSE, after |-> TRUE, raised |-> FALSE]
    /\ reminderJob = IdleJob
    /\ reviewJob = IdleJob
    /\ cb = IdleCall
    /\ TransferInit
    /\ TurnInit
    /\ ChatInit
    /\ ToolInit

ReminderRun ==
    \/ send_booking_reminders_record
    \/ send_booking_reminders_end
    \/ send_booking_reminders_return

IntervalNext == booking_reminders_trigger \/ ReminderRun \/ BookingNext

\* the scheduler keeps running: the trigger fires when its time has come and
\* a run that has begun goes on to its end
IntervalFairSpec ==
    IntervalInit /\ [][IntervalNext]_vars
        /\ WF_vars(booking_reminders_trigger) /\ WF_vars(ReminderRun)

CalendarNext ==
    \/ check_calendar
    \/ check_calendar_lookup
    \/ check_calendar_done

CalendarSpec == Init /\ [][CalendarNext]_vars

SmsNext ==
    \/ sms_call
    \/ send_sms
    \/ messages_create
    \/ sms_return
    \/ sms_done

SmsSpec == Init /\ [][SmsNext]_vars

\* the thread of the caller runs on: every step of a call that can be taken
\* is taken
SmsFairSpec ==
    Init /\ [][SmsNext]_vars /\ WF_vars(send_sms \/ messages_create \/ sms_return \/ sms_done)

ChatNext ==
    \/ chat
    \/ voice_call
    \/ get_or_create_query
    \/ get_or_create_commit
    \/ chat_save_user
    \/ process_message_load
    \/ process_message_invoke
    \/ chat_save_assistant
    \/ request_done
    \/ tick

ChatSpec == Init /\ [][ChatNext]_vars

\* no request is in progress
AllIdle == \A r \in Requests : requests[r].pc = "idle"

SeqChatNext ==
    \/ AllIdle /\ chat
    \/ AllIdle /\ voice_call
    \/ get_or_create_query
    \/ get_or_create_commit
    \/ chat_save_user
    \/ process_message_load
    \/ process_message_invoke
    \/ chat_save_assistant
    \/ request_done
    \/ tick

SeqChatSpec == Init /\ [][SeqChatNext]_vars

\* the turns of two conversations: one thread serves the requests of
\* user_a, the other those of user_b, all within one second of the
\* database clock, so that the history query may give its rows in any order
PairNext ==
    \/ chat_request(1, "user_a")
    \/ chat_request(2, "user_b")
    \/ get_or_create_query
    \/ get_or_create_commit
    \/ chat_save_user
    \/ process_message_load
    \/ process_message_invoke
    \/ chat_save_assistant
    \/ request_done
    \/ tick

\* the tables hold the conversation of user_a of an earlier request, served
\* in one second
ServedInit ==
    /\ now = StartOfTime
    /\ bookings = <<>>
    /\ hist = <<>>
    /\ running = FALSE
    /\ stopPc = "idle"
    /\ lastCall = NoCall
    /\ reminderJob = IdleJob
    /\ reviewJob = IdleJob
    /\ cb = IdleCall
    /\ TransferInit
    /\ TurnInit
    /\ ToolInit
    /\ conversations = <<"user_a">>
    /\ messages = <<[conversation_id |-> 1, role |-> "user",
                     content |-> <<"Message", 0>>, created_at |-> 0],
                    [conversation_id |-> 1, role |-> "assistant",
                     content |-> "Hi there, I can help with that.", created_at |-> 0]>>
    /\ clock = 0
    /\ requests = [r \in Requests |-> NewRequest]
    /\ posts = 0
    /\ served = [u \in UserIds |-> IF u = "user_a" THEN 1 ELSE 0]

PairSpec == ServedInit /\ [][PairNext]_vars

(***************************************************************************)
(* Properties.                                                             *)
(***************************************************************************)
\* the data of the content chunks of a stream, concatenated in their order
RECURSIVE ContentOf(_)
ContentOf(cs) ==
    IF cs = <<>> THEN ""
    ELSE (IF Head(cs).type = "content" THEN Head(cs).data ELSE "")
             \o ContentOf(Tail(cs))

Ids == 1..Len(bookings)

Jobs == {reminderJob, reviewJob}

\* C1: once a Booking's reminder_sent (resp. review_sent) is true in
\* storage, no step of a job or of create_booking sets it back to false,
\* and no step removes the row.
C1_FlagsMonotone ==
    [][\A i \in Ids :
          /\ i \in 1..Len(bookings')
          /\ bookings[i].reminder_sent => bookings'[i].reminder_sent
          /\ bookings[i].review_sent => bookings'[i].review_sent]_vars

\* a Booking whose two flags are set and that a later run of the reminder
\* job has looked at
C1_Witness ==
    \E i \in Ids :
        /\ bookings[i].reminder_sent
        /\ bookings[i].review_sent
        /\ bookings[i].google_event_id = "event"
        /\ reminderJob.pc = "done"
        /\ Len(reminderJob.flagsAtSel) >= i
        /\ reminderJob.flagsAtSel[i]

\* C2: a job sends for no Booking whose flag was true when the job selected
\* its rows, and no Booking gets more than one send of a kind that reported
\* success and whose flag commit succeeded (so none gets a second one when
\* every commit succeeds).
C2_NoResend ==
    /\ \A i \in reminderJob.attempted : ~reminderJob.flagsAtSel[i]
    /\ \A i \in reviewJob.attempted : ~reviewJob.flagsAtSel[i]
    /\ \A i \in Ids : hist[i].reminder <= 1 /\ hist[i].review <= 1

\* the reminder job ran again over a Booking whose reminder was sent and
\* committed, and sent nothing for it
C2_Witness ==
    \E i \in Ids :
        /\ hist[i].reminder = 1
        /\ reminderJob.pc = "done"
        /\ reminderJob.outcome = "completed"
        /\ Len(reminderJob.flagsAtSel) >= i
        /\ reminderJob.flagsAtSel[i]
        /\ i \notin reminderJob.attempted

\* C3: in the reminder job the flag update and its commit run if and only
\* if the send returned status success; reminder_sent turns true in storage
\* only in such a pass; a send that reported an error or raised leaves the
\* stored flag false; and a run of the job that begins selects every Booking
\* whose flag is false and whose appointment is inside the window.
C3_ReminderFlagIffSuccess ==
    [][/\ (reminderJob'.last.commit # "none") <=> (reminderJob'.last.send = "success")
       /\ \A i \in Ids :
             (~bookings[i].reminder_sent /\ bookings'[i].reminder_sent)
                => reminderJob'.last = [id |-> i, send |-> "success", commit |-> "ok"]
       /\ (reminderJob'.attempted # reminderJob.attempted
             /\ reminderJob'.last.send \in {"error", "raise"})
                => /\ bookings' = bookings
                   /\ ~bookings'[reminderJob'.last.id].reminder_sent
       /\ (reminderJob.pc = "idle" /\ reminderJob'.pc = "loop")
                => \A i \in Ids :
                      (/\ ~bookings[i].reminder_sent
                       /\ bookings[i].datetime >= now + 1440 - 10
                       /\ bookings[i].datetime <= now + 1440 + 10)
                         => i \in SeqRange(reminderJob'.sel)]_vars

\* one run: the send for one Booking succeeded and its flag is stored, the
\* send for the next reported an error and its flag is still false
C3_Witness ==
    /\ reminderJob.last.send = "error"
    /\ ~bookings[reminderJob.last.id].reminder_sent
    /\ \E i \in reminderJob.attempted : bookings[i].reminder_sent

\* C4: in one run of a job, an exception raised while sending or committing
\* for one Booking does not stop the run: every Booking the run selected is
\* processed, and no exception leaves the job function.
C4_SweepContinues ==
    \A job \in Jobs :
        job.pc = "done" =>
            /\ job.outcome # "escaped"
            /\ job.attempted = SeqRange(job.sel)

\* C5: a run of the reminder job that read the clock at `now` sends for a
\* Booking only if its appointment lies in [now + 24h - 10min, now + 24h +
\* 10min] and its reminder_sent was false at the selection; it sends for
\* every such Booking and for no other.
C5_ReminderWindowExact ==
    reminderJob.pc = "done" =>
        reminderJob.attempted =
            { i \in 1..Len(reminderJob.flagsAtSel) :
                /\ bookings[i].datetime >= reminderJob.now + 1440 - 10
                /\ bookings[i].datetime <= reminderJob.now + 1440 + 10
                /\ ~reminderJob.flagsAtSel[i] }

\* C6: a run of the review job that read the clock at `now` sends for a
\* Booking only if its appointment is strictly before now, not earlier than
\* now - 2 days, and its review_sent was false at the selection; and
\* review_sent turns true in storage only in a pass whose send returned
\* status success and whose commit ran.
C6_ReviewOnlyPastTwoDays ==
    /\ [](\A i \in reviewJob.attempted :
             /\ bookings[i].datetime < reviewJob.now
             /\ bookings[i].datetime >= reviewJob.now - 2880
             /\ ~reviewJob.flagsAtSel[i])
    /\ [][/\ (reviewJob'.last.commit # "none") => (reviewJob'.last.send = "success")
          /\ \A i \in Ids :
                (~bookings[i].review_sent /\ bookings'[i].review_sent)
                   => reviewJob'.last = [id |-> i, send |-> "success", commit |-> "ok"]]_vars

\* a review request was sent for a Booking exactly two days after its
\* appointment, and the flag is stored
C6_Witness ==
    \E i \in reviewJob.attempted :
        /\ bookings[i].datetime = reviewJob.now - 2880
        /\ reviewJob.last = [id |-> i, send |-> "success", commit |-> "ok"]
        /\ bookings[i].review_sent

\* C7: the scheduler is stopped or running; start() makes a stopped
\* scheduler running and changes nothing on a running one, stop() makes a
\* running scheduler stopped and changes nothing on a stopped one, neither
\* raises; a job begins only while the scheduler is running, and one that is
\* executing when the scheduler is not running is one a stop() call is
\* waiting for.
C7_StartStop ==
    /\ running \in BOOLEAN
    /\ ~lastCall.raised
    /\ lastCall.op = "start" => lastCall.after
    /\ lastCall.op = "stop" => ~lastCall.after
    /\ lastCall.op = "none" => ~running
    /\ (stopPc = "idle" /\ lastCall.op # "none") => running = lastCall.after
    /\ stopPc = "joining" => ~running
    /\ (\E job \in Jobs : job.pc # "idle") => (running \/ stopPc = "joining")

\* stop() on a scheduler that is already stopped, after a run of the
\* reminder job has set a flag while the scheduler was running
C7_Witness ==
    /\ lastCall = [op |-> "stop", before |-> FALSE, after |-> FALSE, raised |-> FALSE]
    /\ ~running
    /\ \E i \in Ids : bookings[i].reminder_sent

\* C8: create_booking with a well-formed date/time earlier than the clock it
\* reads returns at once status error with the past-date message, persists
\* no row, and attempts neither the calendar event nor the SMS.
C8_PastRejected ==
    (cb.wellFormed /\ cb.clock = "earlier") =>
        /\ cb.pc = "returned"
        /\ cb.result = ErrorResult(PastMessage)
        /\ cb.rowId = 0
        /\ Len(bookings) = cb.rowsBefore
        /\ cb.calendar = NoCalendar
        /\ cb.sms = "none"

\* the instant of a Booking made earlier is refused once it has passed
C8_Witness ==
    /\ cb.pc = "returned"
    /\ cb.wellFormed
    /\ cb.clock = "earlier"
    /\ \E i \in Ids : bookings[i].datetime = cb.at

\* C9: every row create_booking persists has an appointment instant
\* strictly later than the clock that call read; an instant equal to the
\* clock is refused with the past-date message.
C9_StrictlyFuture ==
    /\ cb.rowId # 0 => cb.clock = "later"
    /\ (cb.wellFormed /\ cb.clock = "equal") => cb.result = ErrorResult(PastMessage)

\* C10: whenever the calendar step or the confirmation SMS of a call starts
\* or has run, the Booking row of that call is in storage.
C10_RowBeforeSideEffects ==
    (cb.pc \in {"calendar", "sms"} \/ cb.calendar # NoCalendar \/ cb.sms # "none") =>
        /\ cb.rowId \in Ids
        /\ bookings[cb.rowId].datetime = cb.at

\* the calendar service failed to initialise, the SMS was called, the call
\* returned, and the row is there
C10_Witness ==
    /\ cb.pc = "returned"
    /\ cb.calendar.event = "init_raises"
    /\ cb.sms = "called"
    /\ cb.rowId \in Ids

\* C11: once create_booking has committed the row, the call returns status
\* success with the id of that row, whatever the calendar step and the SMS
\* step met, and the SMS step is attempted after the calendar step.
C11_BestEffortSteps ==
    (cb.pc = "returned" /\ cb.rowId # 0) =>
        /\ cb.result = SuccessResult(cb.rowId)
        /\ cb.sms = "called"

\* C12: create_booking with a date/time text that strptime refuses for the
\* format '%Y-%m-%d %H:%M' returns (it does not raise) status error with
\* the message that names 'YYYY-MM-DD HH:MM', and neither a row nor a
\* calendar event nor an SMS comes of it.
C12_InvalidDateTime ==
    (cb.pc = "returned" /\ ~cb.wellFormed) =>
        /\ cb.result = ErrorResult(FormatMessage)
        /\ cb.rowId = 0
        /\ Len(bookings) = cb.rowsBefore
        /\ cb.calendar = NoCalendar
        /\ cb.sms = "none"

\* a malformed text is refused while the table holds a row of an earlier call
C12_Witness ==
    /\ cb.pc = "returned"
    /\ ~cb.wellFormed
    /\ cb.result.status = "error"
    /\ cb.rowsBefore = 1

\* C13: the TransferLog row of a call is in storage whenever the call looks
\* up the conversation or notifies the owner, and a call whose commit
\* succeeded returns status success with the id of its row, with the
\* placeholder "unknown" for a conversation id that matches no Conversation
\* and whatever the notification met.
C13_TransferLogFirst ==
    /\ (tc.pc \in {"lookup", "notify"} \/ tc.user_id # "none" \/ tc.notify # "none") =>
            /\ tc.logId \in 1..Len(transfer_logs)
            /\ transfer_logs[tc.logId].conversation_id = tc.conversation_id
    /\ (tc.pc = "returned" /\ tc.logId # 0) =>
            /\ tc.result = TransferSuccess(tc.logId)
            /\ tc.conversation_id \notin DOMAIN Conversations => tc.user_id = "unknown"

\* C17: in the re-chunking stream the content chunks yielded so far,
\* concatenated in their order, are at every moment the final text up to
\* the character the loop has reached, no chunk is empty, and when the done
\* chunk is yielded they are the whole final text.
C17_RechunkReassembles ==
    (turn.variant = "stream" /\ turn.b.raisesAt = "none" /\ turn.pc # "idle") =>
        /\ ContentOf(chunks) = SubSeq(turn.b.final, 1, turn.i - 1)
        /\ \A k \in 1..Len(chunks) : chunks[k].type = "content" => chunks[k].data # ""
        /\ turn.pc = "closed" =>
              /\ ContentOf(chunks) = turn.b.final
              /\ chunks[Len(chunks)] = Done(turn.action, turn.b.final)

\* a final text of a full chunk without punctuation and a trailing partial
\* chunk has been streamed to its end
C17_Witness ==
    /\ turn.variant = "stream"
    /\ turn.pc = "closed"
    /\ Len(chunks) = 3
    /\ Len(chunks[1].data) = ChunkLength
    /\ chunks[2] = Content("a")

\* `kw` occurs in `text` at some place, letter case aside
OccursIn(kw, text) ==
    \E i \in 1..(Len(text) - Len(kw) + 1) :
        lower(SubSeq(text, i, i + Len(kw) - 1)) = kw

\* the ordered rule list of the action categories, first match wins
RuleList(text) ==
    CASE OccursIn("booking", text) \/ OccursIn("appointed", text) -> "booking"
      [] OTHER ->
            CASE OccursIn("transfer", text) -> "transfer"
              [] OTHER ->
                    CASE OccursIn("calendar", text) \/ OccursIn("available", text)
                            -> "calendar"
                      [] OTHER -> "response"

\* the turn has run agent.invoke to a final message
Answered(t) ==
    /\ t.conversation_id \in DOMAIN Conversations
    /\ t.b.raisesAt = "none"

\* C14: the action process_message returns for a turn that did not fail is
\* what the ordered rule list gives for the final text, letter case aside
\* and first match first; it is the same for every tool the turn ran.
C14_ActionByRuleList ==
    (turn.variant = "invoke" /\ turn.pc = "closed" /\ Answered(turn)) =>
        /\ turn.result.response = turn.b.final
        /\ turn.result.action = RuleList(turn.b.final)
        /\ \A tool \in {"none", "calendar_tool", "booking_tool", "transfer_tool"} :
              process_message_result(turn.conversation_id,
                                     [turn.b EXCEPT !.tool = tool]).action
                  = turn.result.action

\* a final text with 'TRANSFER' before 'Booking', after the transfer tool
\* ran, is a booking
C14_Witness ==
    /\ turn.variant = "invoke"
    /\ turn.pc = "closed"
    /\ turn.b.tool = "transfer_tool"
    /\ OccursIn("transfer", turn.b.final)
    /\ OccursIn("booking", turn.b.final)
    /\ turn.result.action = "booking"

\* C15: when building the agent, loading the history or agent.invoke raises,
\* process_message returns a result: its action is "error" and its response
\* is the apology with the text of the exception in it, also when that text
\* holds a keyword of the rule list.
C15_ErrorResult ==
    (turn.variant = "invoke" /\ turn.pc = "closed"
        /\ (turn.b.raisesAt = "create_agent"
            \/ (turn.b.raisesAt # "none" /\ turn.conversation_id \in DOMAIN Conversations))) =>
        /\ turn.result.action = "error"
        /\ turn.result.response = Apology(turn.b.error)
        /\ In(turn.b.error, turn.result.response)

\* agent.invoke raised an exception whose text says 'booking'
C15_Witness ==
    /\ turn.variant = "invoke"
    /\ turn.pc = "closed"
    /\ turn.b.raisesAt = "invoke"
    /\ OccursIn("booking", turn.b.error)
    /\ turn.result.action = "error"

\* C16: the last chunk of either stream is what process_message returns for
\* the same conversation id and the same behaviour of the gateway: a done
\* chunk with the same action and the same final text, or, where
\* process_message returns the action "error", an error chunk with the same
\* text.
C16_StreamsAgreeWithInvoke ==
    (turn.variant \in {"stream", "stream_async"} /\ turn.pc = "closed") =>
        LET r == process_message_result(turn.conversation_id, turn.b)
            last == chunks[Len(chunks)]
        IN  IF r.action = "error"
            THEN last = Error(r.response)
            ELSE last = Done(r.action, r.response)

\* s is the beginning of t
StartsWith(t, s) == Len(s) <= Len(t) /\ SubSeq(t, 1, Len(s)) = s

\* C18: in the live stream the content chunks yielded so far, concatenated,
\* are at every moment a beginning of the tokens emitted so far,
\* concatenated, and once the loop is over and the queue has been read a
\* last time they are all of them.
C18_LiveTokensInOrder ==
    (turn.variant = "stream_async" /\ agent_task.state # "none") =>
        /\ turn.pc \in {"poll", "clear", "flush", "fallback"} =>
              StartsWith(join(token_callback.tokens), ContentOf(chunks))
        /\ turn.pc = "fallback" =>
              ContentOf(chunks) = join(token_callback.tokens)

\* every chunk before the last is a content chunk, and a stream is over
\* exactly when its last chunk is a done chunk or an error chunk
OneTerminalLast ==
    turn.variant \in {"stream", "stream_async"} =>
        /\ \A k \in 1..(Len(chunks) - 1) : chunks[k].type = "content"
        /\ turn.pc = "closed" <=>
              (chunks # <<>> /\ chunks[Len(chunks)].type \in {"done", "error"})

RECURSIVE ContentCount(_)
ContentCount(cs) ==
    IF cs = <<>> THEN 0
    ELSE (IF Head(cs).type = "content" THEN 1 ELSE 0) + ContentCount(Tail(cs))

\* C20: a live stream that ends with done, whose observer was given no
\* token and whose final message is not empty, has yielded one content
\* chunk, the full final text, before done; and the final text is yielded
\* as the fallback only when no content chunk was yielded before.
C20_FallbackOnce ==
    (turn.variant = "stream_async" /\ turn.pc = "closed"
        /\ chunks[Len(chunks)].type = "done") =>
        /\ (token_callback.tokens = <<>> /\ turn.b.final # "") =>
              /\ Len(chunks) = 2
              /\ chunks[1] = Content(turn.b.final)
        /\ turn.fallback => ContentCount(chunks) = (IF turn.b.final # "" THEN 1 ELSE 0)
        /\ ~turn.fallback => ContentOf(chunks) = turn.full_response

\* the engine emitted no token and the final text came as the fallback
C20_Witness ==
    /\ turn.variant = "stream_async"
    /\ turn.pc = "closed"
    /\ token_callback.tokens = <<>>
    /\ turn.fallback
    /\ Len(chunks) = 2
    /\ chunks[1].data = turn.b.final
    /\ chunks[2].type = "done"

\* the rows of conversation c among the first `upto` rows of "messages",
\* `except` left out, as entries in the order of their creation
StoredEntries(c, upto, except) ==
    LET Belongs(m) == messages[m].conversation_id = c /\ m # except
        ids == SelectSeq([m \in 1..upto |-> m], Belongs)
    IN  [k \in 1..Len(ids) |-> Entry(messages[ids[k]].role, messages[ids[k]].content, ids[k])]

\* the /chat requests whose turn has made its input and is at agent.invoke
AtInvoke == {r \in Requests : requests[r].handler = "chat" /\ requests[r].pc = "invoke"}

\* C21: the input a turn of /chat gives to the gateway is the messages of
\* its conversation stored when the history was read, the message being
\* answered left out, in the order of their creation and with their stored
\* roles, and then the message being answered, once.
C21_ContextIsHistory ==
    \A r \in AtInvoke :
        requests[r].input =
            StoredEntries(requests[r].conversation, requests[r].loaded,
                          requests[r].user_message)
                \o <<Entry("user", requests[r].message, 0)>>

\* C22: every history entry of the input of a turn was made from a stored
\* row of the conversation of that turn.
C22_NoCrossContamination ==
    \A r \in AtInvoke :
        \A k \in 1..(Len(requests[r].input) - 1) :
            LET e == requests[r].input[k]
            IN  /\ e.id \in 1..Len(messages)
                /\ messages[e.id].conversation_id = requests[r].conversation
                /\ messages[e.id].content = e.content

\* a turn of one conversation has history in its input while the other
\* conversation holds messages and has a turn at agent.invoke as well
C22_Witness ==
    \E r, o \in AtInvoke :
        /\ requests[r].conversation # requests[o].conversation
        /\ Len(requests[r].input) >= 3
        /\ \E m \in 1..requests[r].loaded :
              messages[m].conversation_id = requests[o].conversation

\* the request has its conversation and is past the get-or-create block
HasConversation(r) ==
    requests[r].pc \in {"save_user", "load", "invoke", "save_assistant", "returned",
                        "session"}

\* C23: no two Conversations have the same user_id, a request that is past
\* the get-or-create block holds the Conversation of its user_id, and no
\* request ends with an exception that nothing handles.
C23_OneConversationPerUser ==
    /\ \A c, d \in 1..Len(conversations) : conversations[c] = conversations[d] => c = d
    /\ \A r \in Requests :
          HasConversation(r) =>
              /\ requests[r].conversation \in 1..Len(conversations)
              /\ conversations[requests[r].conversation] = requests[r].user_id
    /\ \A r \in Requests : requests[r].pc # "failed"

\* the roles of the rows of the conversation of user u, in creation order
RolesOf(u) ==
    LET all == StoredEntries(ConversationOf(u), Len(messages), 0)
    IN  [k \in 1..Len(all) |-> all[k].role]

\* C24: with the /chat requests of a user made one after the other, the rows
\* of the conversation alternate user, assistant; they are twice the
\* requests that have returned, and one more while a turn is processed; the
\* assistant row of a request that has returned holds the response, the
\* apology of a turn of the error category too.
C24_TwoMessagesPerTurn ==
    /\ \A u \in UserIds :
          /\ \A k \in 1..Len(RolesOf(u)) :
                RolesOf(u)[k] = (IF k % 2 = 1 THEN "user" ELSE "assistant")
          /\ LET inTurn == \E r \in Requests :
                     /\ requests[r].user_id = u
                     /\ requests[r].pc \in {"load", "invoke", "save_assistant"}
             IN  Len(RolesOf(u)) = 2 * served[u] + (IF inTurn THEN 1 ELSE 0)
    /\ \A r \in Requests :
          requests[r].pc = "returned" =>
              LET all == StoredEntries(requests[r].conversation, Len(messages), 0)
              IN  /\ all[Len(all)].role = "assistant"
                  /\ all[Len(all)].content = requests[r].result.response
                  /\ all[Len(all) - 1].id = requests[r].user_message

\* the second request of a user has returned with the error category, and
\* its apology is the fourth row of the conversation
C24_Witness ==
    \E r \in Requests :
        /\ requests[r].pc = "returned"
        /\ requests[r].result.action = "error"
        /\ served[requests[r].user_id] = 2
        /\ Len(RolesOf(requests[r].user_id)) = 4

\* a turn ends with the error category only by an exception of agent.invoke
LoopResultOK ==
    agent_loop.pc = "returned" =>
        /\ agent_loop.invocations = 1
        /\ agent_loop.steps <= RecursionLimit
        /\ Len(agent_loop.ran) * 2 <= RecursionLimit
        /\ \/ agent_loop.result.action = "error"
           \/ agent_loop.result.response \in LoopTexts

Given(row) ==
    <<row.user_id, row.user_name, row.user_phone, row.datetime, row.notes>>

\* C30: no step removes a Booking or changes the owner, the customer name,
\* the phone, the appointment instant or the notes of a stored Booking; a
\* step of the reminder job changes at most reminder_sent, a step of the
\* review job at most review_sent, and a step of create_booking changes of
\* a stored Booking at most google_event_id, and that only after
\* create_event returned success.
C30_FrameOfBooking ==
    [][\A i \in Ids :
          /\ i \in 1..Len(bookings')
          /\ Given(bookings'[i]) = Given(bookings[i])
          /\ reminderJob' # reminderJob =>
                bookings'[i] = [bookings[i] EXCEPT
                                   !.reminder_sent = bookings'[i].reminder_sent]
          /\ reviewJob' # reviewJob =>
                bookings'[i] = [bookings[i] EXCEPT
                                   !.review_sent = bookings'[i].review_sent]
          /\ cb' # cb =>
                /\ bookings'[i] = [bookings[i] EXCEPT
                                      !.google_event_id = bookings'[i].google_event_id]
                /\ bookings'[i] # bookings[i] =>
                      /\ i = cb.rowId
                      /\ cb'.calendar.event = "success"]_vars

\* a Booking with its three writable columns written, one by each writer
C30_Witness ==
    \E i \in Ids :
        /\ bookings[i].reminder_sent
        /\ bookings[i].review_sent
        /\ bookings[i].google_event_id = "event"
        /\ Given(bookings[i]) = Given(NewBooking(bookings[i].datetime))
        /\ reviewJob.pc = "done"
        /\ cb.pc = "idle"

\* the call got as far as the collaborator, and the collaborator failed
CollaboratorFailed ==
    cal.collab.kind \in {"init_raises", "list_raises", "bad_event"}

\* C26: check_calendar returns a result; the result is the invalid-date
\* error exactly when the text is neither 'today' nor 'tomorrow', letter
\* case aside, nor a date strptime takes, and it is the lookup-failed error
\* whenever the text is one of these and the collaborator fails.
C26_ErrorByCause ==
    cal.pc = "returned" =>
        /\ cal.result.status \in {"success", "error"}
        /\ cal.result = InvalidDate <=> ~(IsKeyword(cal.input) \/ Parsable(cal.input))
        /\ CollaboratorFailed =>
              /\ cal.result.status = "error"
              /\ StartsWith(cal.result.message, "Error checking calendar: ")

\* C27: every slot get_available_slots returns is 30 minutes long, starts
\* at or after 09:00 and ends at or before 17:00 of the target date, and
\* its text spells these times; with no event the list is not empty.
C27_SlotsInsideWindow ==
    (cal.pc = "returned" /\ cal.collab.kind = "events") =>
        /\ \A k \in 1..Len(cal.result.available_slots) :
              LET slot == cal.result.available_slots[k]
              IN  /\ slot.end - slot.start = 30
                  /\ slot.start >= 9 * 60
                  /\ slot.end <= 17 * 60
                  /\ slot.text = <<slot.start \div 60, slot.start % 60,
                                   slot.end \div 60, slot.end % 60>>
        /\ cal.collab.events = <<>> => cal.result.available_slots # <<>>

\* C28: send_sms returns a result and never raises; without a client it
\* makes no external call and returns status success; when the call of the
\* provider raises it returns status error; send_reminder_sms,
\* send_review_request_sms and send_transfer_notification return what
\* send_sms returns.
C28_SmsNeverRaises ==
    sms.pc = "returned" =>
        /\ sms.result.status \in {"success", "error"}
        /\ ~sms.client => (sms.calls = 0 /\ sms.result.status = "success")
        /\ sms.provider \in {"rest_exception", "connection_error"} =>
              sms.result.status = "error"
        /\ sms.result = sms.inner

C28_Witness ==
    /\ sms.pc = "returned"
    /\ sms.fn = "send_transfer_notification"
    /\ sms.client
    /\ sms.provider = "connection_error"
    /\ sms.result.status = "error"

\* C29: an external call a tool makes that never returns is abandoned after
\* a bounded wait: every call of the messaging service that has started
\* returns a result to the tool, so the tool and the turn go on.
C29_ExternalCallAbandoned == (sms.pc # "idle") ~> (sms.pc = "returned")

\* C31: a turn called with a conversation id that matches no Conversation
\* gives the error category, or in a stream one error chunk and nothing
\* else, and neither invokes the agent (no token, no worker, no tool) nor
\* leaves without a result.
C31_MissingConversation ==
    (turn.pc # "idle" /\ turn.conversation_id \notin DOMAIN Conversations) =>
        /\ turn.pc = "closed"
        /\ ~turn.invoked
        /\ token_callback.tokens = <<>>
        /\ agent_task.state = "none"
        /\ turn.variant = "invoke" =>
              (turn.result.action = "error" /\ turn.result.response # "")
        /\ turn.variant \in {"stream", "stream_async"} =>
              (Len(chunks) = 1 /\ chunks[1].type = "error")

C31_Witness ==
    /\ turn.pc = "closed"
    /\ turn.variant = "stream_async"
    /\ turn.conversation_id \notin DOMAIN Conversations
    /\ turn.b.raisesAt = "none"
    /\ turn.b.tool = "transfer_tool"
    /\ chunks = <<Error(StreamNotFound)>>

\* a send of the kind reported success for the Booking i and its flag was
\* not persisted
Unpersisted(i, kind) == hist[i].delivered[kind] > hist[i][kind]

LostInPass(job, i) ==
    /\ job.last.id = i
    /\ job.last.send = "success"
    /\ job.last.commit \in {"fail_reload_ok", "fail_reload_raises"}

\* the run of the job has ended, it had selected its rows when the Booking i
\* was stored with its flag false and inside the window of the run
EndedOver(job, i, inWindow) ==
    /\ job.pc = "done"
    /\ i <= Len(job.flagsAtSel)
    /\ ~job.flagsAtSel[i]
    /\ inWindow

\* C32: a send that reports success and whose flag commit fails leaves the
\* stored flag false; the next sweep whose window still holds the Booking
\* sends the notification again; and a Booking gets a second notification
\* of a kind only after a send whose flag was not persisted.
C32_UnpersistedSendRepeats ==
    \A i \in Ids :
        /\ LostInPass(reminderJob, i) => ~bookings[i].reminder_sent
        /\ LostInPass(reviewJob, i) => ~bookings[i].review_sent
        /\ \A kind \in {"reminder", "review"} :
              hist[i].delivered[kind] >= 2 => Unpersisted(i, kind)
        /\ (/\ Unpersisted(i, "reminder")
            /\ EndedOver(reminderJob, i,
                         /\ bookings[i].datetime >= reminderJob.now + 24 * 60 - 10
                         /\ bookings[i].datetime <= reminderJob.now + 24 * 60 + 10))
              => i \in reminderJob.attempted
        /\ (/\ Unpersisted(i, "review")
            /\ EndedOver(reviewJob, i,
                         /\ bookings[i].datetime < reviewJob.now
                         /\ bookings[i].datetime >= reviewJob.now - 2 * 1440))
              => i \in reviewJob.attempted

\* the k-th chunk is a content chunk and not the last one of its text
BeforeLast(k) ==
    \/ k < Len(chunks) /\ chunks[k + 1].type = "content"
    \/ k = Len(chunks) /\ turn.pc = "chunking" /\ turn.i <= Len(turn.full_response)

\* C33: in the re-chunking stream every content chunk has from 1 to 10
\* characters, a delimiter (space, newline, comma, period, '!', '?', ':',
\* ';') stands nowhere in a chunk but at its end, and every content chunk
\* but the last ends with a delimiter or has exactly 10 characters.
C33_ChunkShape ==
    (turn.variant = "stream" /\ turn.pc # "idle") =>
        \A k \in 1..Len(chunks) :
            chunks[k].type = "content" =>
                LET data == chunks[k].data
                    n == Len(data)
                    delimiters == {" ", "\n", ",", ".", "!", "?", ":", ";"}
                IN  /\ n >= 1
                    /\ n <= 10
                    /\ \A j \in 1..(n - 1) : SubSeq(data, j, j) \notin delimiters
                    /\ BeforeLast(k) =>
                          (SubSeq(data, n, n) \in delimiters \/ n = 10)

\* a text has been streamed to its end in chunks that end with a space or
\* a colon, one of them of ten characters, and a last one without delimiter
C33_Witness ==
    /\ turn.variant = "stream"
    /\ turn.pc = "closed"
    /\ turn.b.final = "Slots are AVAILABLE at 10:00"
    /\ Len(chunks) = 7
    /\ chunks[3] = Content("AVAILABLE ")
    /\ chunks[5] = Content("10:")
    /\ chunks[6] = Content("00")

\* C34: in both streams the full response of a done chunk is the data of
\* the content chunks yielded before it, concatenated in their order; when
\* there is none it is the empty string and the action is 'response'.
C34_DoneIsConcatenation ==
    \A k \in 1..Len(chunks) :
        chunks[k].type = "done" =>
            /\ chunks[k].data = ContentOf(SubSeq(chunks, 1, k - 1))
            /\ ContentCount(SubSeq(chunks, 1, k - 1)) = 0 =>
                  (chunks[k].data = "" /\ chunks[k].action = "response")

\* the polling stream has yielded two content chunks and then done
C34_Witness ==
    /\ turn.variant = "stream_async"
    /\ turn.pc = "closed"
    /\ Len(chunks) = 3
    /\ chunks[1].type = "content"
    /\ chunks[2].type = "content"
    /\ chunks[3] = Done("booking", chunks[1].data \o chunks[2].data)

\* the requests r and o are two /chat requests of one conversation, both
\* user messages were stored before either turn read the history, and the
\* turn of r has made its input
BothStoredBeforeLoad(r, o) ==
    /\ r \in AtInvoke
    /\ o # r
    /\ requests[o].handler = "chat"
    /\ requests[o].conversation = requests[r].conversation
    /\ requests[o].user_message \in 1..requests[r].loaded
    /\ \/ requests[o].pc = "load"
       \/ requests[o].pc = "invoke" /\ requests[r].user_message <= requests[o].loaded

\* C35: when two /chat requests of one conversation have both stored their
\* user message before either turn reads the history, the input of each
\* turn ends with the message of that turn, holds it nowhere else, and
\* holds every other stored message of the conversation, the user message
\* of the other request among them, exactly once.
C35_InterleavedTurnsSeeBoth ==
    \A r, o \in Requests :
        BothStoredBeforeLoad(r, o) =>
            LET input == requests[r].input
                history == 1..(Len(input) - 1)
                Times(m) == Cardinality({k \in history : input[k].id = m})
            IN  /\ input[Len(input)] = Entry("user", requests[r].message, 0)
                /\ Times(requests[r].user_message) = 0
                /\ \A m \in 1..requests[r].loaded :
                      (/\ messages[m].conversation_id = requests[r].conversation
                       /\ m # requests[r].user_message) => Times(m) = 1

\* C36: what a commit of the reminder job, of the review job or of
\* create_booking has written to a Booking is in storage ever after,
\* whatever the two others commit to the same Booking and in whatever
\* order the three interleave.
C36_NoLostUpdate ==
    \A i \in Ids :
        /\ hist[i].reminder >= 1 => bookings[i].reminder_sent
        /\ hist[i].review >= 1 => bookings[i].review_sent
        /\ hist[i].event => bookings[i].google_event_id = "event"

\* the reminder job has committed reminder_sent for a Booking between the
\* insert of create_booking and its commit of google_event_id, and the run
\* of the job is still going on
C36_Witness ==
    /\ cb.pc = "sms"
    /\ cb.calendar = [event |-> "success", commit |-> "ok"]
    /\ reminderJob.pc = "loop"
    /\ reminderJob.last = [id |-> cb.rowId, send |-> "success", commit |-> "ok"]
    /\ bookings[cb.rowId].reminder_sent
    /\ bookings[cb.rowId].google_event_id = "event"

\* no query and no commit of the reminder job has failed and every send
\* has reported success
NoFailure ==
    /\ reminderJob.outcome # "aborted"
    /\ reminderJob.last.send \in {"none", "success"}
    /\ reminderJob.last.commit \in {"none", "ok"}

\* the Booking i is in storage while the clock is more than 24 hours and
\* 10 minutes before its appointment
StoredEarly(i) ==
    /\ i \in Ids
    /\ now < bookings[i].datetime - (24 * 60 + 10)

\* a run of the reminder job has sent for the Booking i, its flag is true
\* and its appointment is still to come
RemindedInTime(i) ==
    /\ i \in Ids
    /\ hist[i].delivered.reminder >= 1
    /\ bookings[i].reminder_sent
    /\ now < bookings[i].datetime

\* C37: with the reminder job run every 5 minutes, every send reporting
\* success and every commit succeeding, a Booking stored more than 24 hours
\* and 10 minutes before its appointment is selected by a run of the job
\* and has reminder_sent true before its appointment.
C37_ReminderInTime ==
    \A i \in 1..MaxBookings : []NoFailure => (StoredEarly(i) ~> RemindedInTime(i))

\* the first run of the job whose window holds the appointment has sent
\* for a Booking stored before that run and has committed its flag
C37_Witness ==
    /\ reminderJob.pc = "done"
    /\ reminderJob.outcome = "completed"
    /\ reminderJob.last = [id |-> 1, send |-> "success", commit |-> "ok"]
    /\ reminderJob.now - 5 < bookings[1].datetime - (24 * 60 + 10)
    /\ bookings[1].reminder_sent
    /\ NoFailure

\* this step calls the send of the job for the Booking b
SendsTo(job, after, b) ==
    /\ b \notin job.attempted
    /\ b \in after.attempted

ReturnedForBooked ==
    /\ cb.pc = "returned"
    /\ cb.wellFormed
    /\ cb.clock # "earlier"
    /\ \E i \in 1..cb.rowsBefore : bookings[i].datetime = cb.at

====
